---- MODULE Spec2Model ----
(***************************************************************************)
(* Model of the C-callable bridge layer of srt-rs (srt-c/src/lib.rs): the  *)
(* process-wide socket registry, the per-handle lifecycle cell guarded by  *)
(* its own mutex, the listener's background accept loop, the non-blocking  *)
(* connect task and the calling threads' last-error slots.                 *)
(*                                                                         *)
(* The transport engine (srt-tokio / srt-protocol) is the environment: the *)
(* outcome of option validation, of binding, of a handshake, of queuing a  *)
(* payload and of closing a session is a nondeterministic input.           *)
(*                                                                         *)
(* A panic (unwrap/expect/unimplemented!) ends the thread or task that     *)
(* raised it and poisons the mutexes it holds; every later lock().unwrap() *)
(* of a poisoned mutex panics in turn.  A process abort is the special     *)
(* case in which nothing runs afterwards, so every state an aborting build *)
(* reaches is a state of this model.                                       *)
(***************************************************************************)
EXTENDS Integers, Sequences, FiniteSets, TLC

(***************************************************************************)
(* Bounds of the model.                                                    *)
(***************************************************************************)
\* handles the atomic counter may hand out: 1 .. MaxSock
MaxSock == 3
\* API calls started by the calling threads in one behaviour
MaxCalls == 5

Threads == {"t1", "t2"}
Handles == 1 .. MaxSock
\* the key of the registry's RwLock among the locks; the Mutex of a cell is
\* kept under the cell's handle
SOCKETS == 0

(***************************************************************************)
(* Program constants.                                                      *)
(***************************************************************************)
SRT_SUCCESS == 0
SRT_ERROR == -1
SRT_INVALID_SOCK == -1
\* static NEXT_SOCKID: AtomicI32 = AtomicI32::new(1)
FirstSockId == 1
\* mpsc::channel(1024)
ChannelCapacity == 1024

\* SRT_ERRNO values used by the bridge (errors.rs)
Errnos == {"SRT_SUCCESS", "SRT_EINVSOCK", "SRT_EINVPARAM", "SRT_ECONNSOCK",
           "SRT_EINVOP", "SRT_ENOSERVER", "SRT_EASYNCRCV", "SRT_ESCLOSED",
           "SRT_ENOLISTEN", "SRT_ELARGEMSG", "SRT_ENOCONN", "SRT_ECONNLOST",
           "SRT_EBOUNDSOCK"}

(***************************************************************************)
(* Values.  Option<T> is modelled with the string "None" for None.         *)
(***************************************************************************)
None == "None"
NA == "NA"

StreamIds == {"sidA"}
Passphrases == {"passphraseA"}
Callbacks == {"cb1"}
\* a string StreamId::try_from / Passphrase::try_from rejects
BadString == "bad"

(***************************************************************************)
(* std::time::Duration, and 64-bit integers as four 16-bit limbs (least    *)
(* significant first; the last limb of an i64 carries the sign).           *)
(***************************************************************************)
MillisPerSec == 1000
NanosPerMilli == 1000000

\* Duration::from_millis
from_millis(ms) ==
    [secs |-> ms \div MillisPerSec, nanos |-> (ms % MillisPerSec) * NanosPerMilli]

\* Duration::as_millis
as_millis(d) == d.secs * MillisPerSec + d.nanos \div NanosPerMilli

LimbBase == 65536
Zero64 == <<0, 0, 0, 0>>

\* mutant: the sign bit is cleared on the way in
as_u64_Abs(i) == [i EXCEPT ![4] = IF @ < 0 THEN @ + LimbBase \div 2 ELSE @]

\* `i as u64` on an i64: the same 64 bits read as unsigned
as_u64(i) == [i EXCEPT ![4] = (@ + LimbBase) % LimbBase]

\* `rate.0 as i64` on a u64: the same 64 bits read as signed
as_i64(u) == [u EXCEPT ![4] = IF @ >= LimbBase \div 2 THEN @ - LimbBase ELSE @]

\* LiveBandwidthMode: Unlimited, and Estimated { expected, overhead }
Unlimited == [mode |-> "Unlimited", rate |-> Zero64, overhead |-> 0]
Estimated(expected, overhead) ==
    [mode |-> "Estimated", rate |-> expected, overhead |-> overhead]

\* Percent(25), the overhead srt_setsockflag picks when none was estimated
DefaultOverhead == 25

\* the defaults of srt-protocol for the options the bridge reads: 3 s to
\* connect, 120 ms of latency either way
DefaultConnectTimeout == 3000
DefaultLatency == 120

\* impl Default for ApiOptions
DefaultApiOptions == [snd_syn |-> TRUE, rcv_syn |-> TRUE, listen_cb |-> None]

\* SocketOptions::default(): only the fields the bridge touches
DefaultSocketOptions ==
    [local |-> "0.0.0.0:0", passphrase |-> None,
     timeout |-> from_millis(DefaultConnectTimeout),
     latency |-> from_millis(DefaultLatency),
     peer_latency |-> from_millis(DefaultLatency),
     bandwidth |-> Unlimited]

\* placeholders for the payload a variant does not carry
NoSo == [local |-> NA, passphrase |-> NA, timeout |-> from_millis(0),
         latency |-> from_millis(0), peer_latency |-> from_millis(0),
         bandwidth |-> Unlimited]
NoApi == [snd_syn |-> FALSE, rcv_syn |-> FALSE, listen_cb |-> NA]
NoSess == [stream_id |-> NA, recv_tsbpd_latency |-> from_millis(0),
           send_tsbpd_latency |-> from_millis(0), bandwidth |-> Unlimited]

\* enum SocketData
Initialized(so, sid, api) ==
    [tag |-> "Initialized", so |-> so, sid |-> sid, api |-> api,
     rx |-> NA, ks |-> NA, sess |-> NoSess]
ConnectingNonBlocking(api) ==
    [tag |-> "ConnectingNonBlocking", so |-> NoSo, sid |-> NA, api |-> api,
     rx |-> NA, ks |-> NA, sess |-> NoSess]
Established(sess, api) ==
    [tag |-> "Established", so |-> NoSo, sid |-> NA, api |-> api,
     rx |-> NA, ks |-> NA, sess |-> sess]
Listening(rx, api) ==
    [tag |-> "Listening", so |-> NoSo, sid |-> NA, api |-> api,
     rx |-> rx, ks |-> NA, sess |-> NoSess]
ConnectFailed ==
    [tag |-> "ConnectFailed", so |-> NoSo, sid |-> NA, api |-> NoApi,
     rx |-> NA, ks |-> NA, sess |-> NoSess]
Accepting(ks) ==
    [tag |-> "Accepting", so |-> NoSo, sid |-> NA, api |-> NoApi,
     rx |-> NA, ks |-> ks, sess |-> NoSess]
InvalidIntermediateState ==
    [tag |-> "InvalidIntermediateState", so |-> NoSo, sid |-> NA, api |-> NoApi,
     rx |-> NA, ks |-> NA, sess |-> NoSess]
Closed ==
    [tag |-> "Closed", so |-> NoSo, sid |-> NA, api |-> NoApi,
     rx |-> NA, ks |-> NA, sess |-> NoSess]
\* a handle value the counter has not handed out yet has no cell
NoCell ==
    [tag |-> "NoCell", so |-> NoSo, sid |-> NA, api |-> NoApi,
     rx |-> NA, ks |-> NA, sess |-> NoSess]

\* SocketData::api_opts / opts_mut: the four variants that carry ApiOptions
has_api_opts(sd) ==
    sd.tag \in {"Initialized", "ConnectingNonBlocking", "Established", "Listening"}

\* SocketData::sock_opts / opts_mut: only Initialized carries SocketOptions
has_sock_opts(sd) == sd.tag = "Initialized"

\* the session a completed handshake yields: its settings snapshot.  The
\* latencies and the bandwidth mode are what the handshake settled on, which
\* the bridge has no part in: the model fixes them at the defaults.
Session(stream_id) ==
    [stream_id |-> stream_id,
     recv_tsbpd_latency |-> from_millis(DefaultLatency),
     send_tsbpd_latency |-> from_millis(DefaultLatency),
     bandwidth |-> Unlimited]

\* SocketData::conn_settings: only Established has a session to ask
has_conn_settings(sd) == sd.tag = "Established"

VARIABLES
    sockets,      \* SOCKETS: the handles in the registry
    next_sockid,  \* NEXT_SOCKID
    cell,         \* the SocketData behind each Arc<Mutex<..>>
    lock,         \* the Mutex of each cell and the RwLock of SOCKETS: "free", a
                  \* holder, or "poisoned"
    thr,          \* the calling threads: position, locals, return value, LAST_ERROR
    loop,         \* the accept loop spawned by srt_listen, per listening handle
    chan,         \* the hand-off channel of each listener
    task,         \* the task spawned by a non-blocking srt_connect, per handle
    ncalls,       \* API calls started so far
    delivered,    \* history: how often srt_accept has returned each handle
    closed        \* history: the handles a srt_close call found and returned for

vars == <<sockets, next_sockid, cell, lock, thr, loop, chan, task, ncalls,
          delivered, closed>>

(***************************************************************************)
(* Shapes of the per-thread and per-task records.                          *)
(***************************************************************************)
\* the initial value of LAST_ERROR_STR
NoErrorMessage == "(no error set on this thread)"

\* err and msg are the thread-local LAST_ERROR and LAST_ERROR_STR
IdleThread ==
    [pc |-> "idle", op |-> "none", h |-> SRT_INVALID_SOCK, arg |-> NA,
     ret |-> SRT_SUCCESS, err |-> "SRT_SUCCESS", msg |-> NoErrorMessage,
     sd |-> NoCell,
     incoming |-> SRT_INVALID_SOCK, new_sock |-> SRT_INVALID_SOCK,
     opts |-> NoApi, out |-> NA, recvd |-> <<>>]

NoLoop == [pc |-> "none", new_sock |-> SRT_INVALID_SOCK, opts |-> NoApi,
           ks |-> NA, closing |-> FALSE,
           exception_thrown |-> 0, ret |-> 0]
NoTask == [pc |-> "none", options |-> NoApi, streamid |-> None, late |-> FALSE]
NoChan == [q |-> <<>>, open |-> FALSE, rx_dropped |-> FALSE, tx_dropped |-> FALSE]

Init ==
    /\ sockets = {}
    /\ next_sockid = FirstSockId
    /\ cell = [h \in Handles |-> NoCell]
    /\ lock = [h \in Handles \cup {SOCKETS} |-> "free"]
    /\ thr = [t \in Threads |-> IdleThread]
    /\ loop = [h \in Handles |-> NoLoop]
    /\ chan = [h \in Handles |-> NoChan]
    /\ task = [h \in Handles |-> NoTask]
    /\ ncalls = 0
    /\ delivered = [h \in Handles |-> 0]
    /\ closed = {}

(***************************************************************************)
(* Registry.                                                               *)
(***************************************************************************)
\* mutant: the read guard of the lookup lives on in the caller
read_guard_Kept(who) == who

\* SOCKETS.read().unwrap().get(&sock).cloned(): the guard is a temporary of
\* the expression and is gone when get_sock returns
read_guard(who) == "free"

\* mutant: the lookup still finds a handle that srt_close has removed
get_sock_FindsClosed(sock) == IF sock \in sockets \cup closed THEN <<sock>> ELSE <<>>

\* get_sock: Option<Arc<..>> as a sequence of at most one cell reference
get_sock(sock) == IF sock \in sockets THEN <<sock>> ELSE <<>>

\* sockets.remove(&socknum)
RemoveSocket(socks, socknum) == socks \ {socknum}

\* mutant: the counter starts over whenever the registry is empty
insert_socket_Reuses(data) ==
    LET id == IF sockets = {} THEN FirstSockId ELSE next_sockid IN
    /\ next_sockid <= MaxSock
    /\ sockets' = sockets \cup {id}
    /\ cell' = [cell EXCEPT ![id] = data]
    /\ next_sockid' = id + 1

\* insert_socket: fetch_add on the counter and insertion, under the write lock
insert_socket(data) ==
    /\ lock[SOCKETS] = "free"
    /\ next_sockid <= MaxSock
    /\ sockets' = sockets \cup {next_sockid}
    /\ cell' = [cell EXCEPT ![next_sockid] = data]
    /\ next_sockid' = next_sockid + 1

(***************************************************************************)
(* Return paths of a boundary operation on thread t.                       *)
(***************************************************************************)
\* the locals of the call go out of scope; LAST_ERROR is left alone
Returned(t, r) ==
    [thr[t] EXCEPT !.pc = "idle", !.ret = r, !.arg = NA, !.sd = NoCell,
                   !.incoming = SRT_INVALID_SOCK, !.new_sock = SRT_INVALID_SOCK,
                   !.opts = NoApi, !.recvd = <<>>]

\* mutant: the code is stored and the message of an earlier failure is kept
last_error_CodeOnly(r, e, args) == [r EXCEPT !.err = e]

\* the two writes of set_error_fmt on the thread whose record is r:
\* LAST_ERROR_STR = format!("{}", args), then LAST_ERROR = err
last_error(r, e, args) == [r EXCEPT !.err = e, !.msg = args]

\* set_error_fmt: overwrite the slot of the calling thread, return SRT_ERROR
set_error_fmt(t, e, args) == last_error(Returned(t, SRT_ERROR), e, args)

\* set_error: the message is the Display of the code
set_error(t, e) == set_error_fmt(t, e, e)

\* a panic on thread t: the call never returns
Panicked(t) == [thr[t] EXCEPT !.pc = "panicked"]

\* entry of every handle operation: parameter checks, then get_sock; mem is
\* what the memory behind the caller's output pointer holds at the call
EnterWith(t, op, h, arg, paramOk, mem) ==
    /\ thr[t].pc = "idle"
    /\ ncalls < MaxCalls
    /\ ncalls' = ncalls + 1
    /\ LET me == [thr[t] EXCEPT !.op = op, !.h = h, !.arg = arg, !.out = mem]
       IN  thr' = [thr EXCEPT ![t] =
                IF ~paramOk
                THEN last_error([me EXCEPT !.pc = "idle", !.ret = SRT_ERROR,
                                           !.arg = NA],
                                "SRT_EINVPARAM",
                                IF op \in {"bind", "connect"}
                                THEN "Invalid socket address" ELSE "SRT_EINVPARAM")
                ELSE IF get_sock(h) = <<>>
                THEN last_error([me EXCEPT !.pc = "idle", !.ret = SRT_ERROR,
                                           !.arg = NA],
                                "SRT_EINVSOCK", "SRT_EINVSOCK")
                ELSE [me EXCEPT !.pc = "lock"]]
    /\ IF paramOk
       THEN /\ lock[SOCKETS] = "free"
            /\ lock' = [lock EXCEPT ![SOCKETS] = read_guard(t)]
       ELSE lock' = lock
    /\ UNCHANGED <<sockets, next_sockid, cell, loop, chan, task, delivered, closed>>

\* entry of an operation whose output memory the model does not look at
Enter(t, op, h, arg, paramOk) == EnterWith(t, op, h, arg, paramOk, NA)

\* thread t is at sock.lock().unwrap() of operation op and the mutex is free
AtLock(t, op) ==
    /\ thr[t].pc = "lock"
    /\ thr[t].op = op
    /\ lock[thr[t].h] = "free"

\* sock.lock().unwrap() on a mutex poisoned by an earlier panic
LockPoisoned(t) ==
    /\ thr[t].pc \in {"lock", "accept_putback"}
    /\ lock[thr[t].h] = "poisoned"
    /\ thr' = [thr EXCEPT ![t] = Panicked(t)]
    /\ UNCHANGED <<sockets, next_sockid, cell, lock, loop, chan, task, ncalls, delivered, closed>>

(***************************************************************************)
(* srt_create_socket, srt_cleanup                                          *)
(***************************************************************************)
srt_create_socket(t) ==
    /\ thr[t].pc = "idle"
    /\ ncalls < MaxCalls
    /\ ncalls' = ncalls + 1
    /\ insert_socket(Initialized(DefaultSocketOptions, None, DefaultApiOptions))
    /\ thr' = [thr EXCEPT ![t] =
            [Returned(t, next_sockid) EXCEPT !.op = "create", !.h = next_sockid,
                                             !.out = NA]]
    /\ UNCHANGED <<lock, loop, chan, task, delivered, closed>>

srt_cleanup(t) ==
    /\ thr[t].pc = "idle"
    /\ ncalls < MaxCalls
    /\ ncalls' = ncalls + 1
    /\ lock[SOCKETS] = "free"
    /\ sockets' = {}
    /\ thr' = [thr EXCEPT ![t] =
            [Returned(t, SRT_SUCCESS) EXCEPT !.op = "cleanup",
                                             !.h = SRT_INVALID_SOCK, !.out = NA]]
    /\ UNCHANGED <<next_sockid, cell, lock, loop, chan, task, delivered, closed>>

(***************************************************************************)
(* srt_bind                                                                *)
(***************************************************************************)
srt_bind_call(t, h, name) ==
    Enter(t, "bind", h, name, name # None)

\* mutant: bind rebuilds the Initialized value and forgets the stream id
BindCell_DropsStreamId(sd, name) ==
    Initialized([sd.so EXCEPT !.local = name], None, sd.api)

\* b.connect.local = name, on the SocketOptions inside the Initialized cell
BindCell(sd, name) == [sd EXCEPT !.so.local = name]

srt_bind(t) ==
    /\ AtLock(t, "bind")
    /\ LET h == thr[t].h IN
       IF cell[h].tag = "Initialized"
       THEN /\ cell' = [cell EXCEPT ![h] = BindCell(cell[h], thr[t].arg)]
            /\ thr' = [thr EXCEPT ![t] = Returned(t, SRT_SUCCESS)]
       ELSE /\ cell' = cell
            /\ thr' = [thr EXCEPT ![t] = set_error(t, "SRT_ECONNSOCK")]
    /\ UNCHANGED <<sockets, next_sockid, lock, loop, chan, task, ncalls, delivered, closed>>

(***************************************************************************)
(* srt_listen and the accept loop it spawns                                *)
(***************************************************************************)
srt_listen_call(t, h) ==
    Enter(t, "listen", h, NA, TRUE)

\* mutant: the arm for a cell that is not Initialized forgets to put sd back
RestoredCell_Forgets(sd) == InvalidIntermediateState

\* *l = sd: srt_listen and srt_connect put back the value they moved out of
\* a cell that is not Initialized
RestoredCell(sd) == sd

\* what srt_listen leaves in the cell when try_validate or SrtListener::bind
\* fails: both arms return right after replace() moved the old value out
ListenFailureCell(sd) == InvalidIntermediateState

\* the loop as spawned: it waits for the first request
SpawnedLoop == [pc |-> "next", new_sock |-> SRT_INVALID_SOCK, opts |-> NoApi,
                ks |-> NA, closing |-> FALSE, exception_thrown |-> 0, ret |-> 0]
NewChan == [q |-> <<>>, open |-> TRUE, rx_dropped |-> FALSE, tx_dropped |-> FALSE]

srt_listen(t) ==
    /\ AtLock(t, "listen")
    /\ LET h == thr[t].h
           sd == cell[h]
       IN  IF sd.tag = "Initialized"
           THEN \E outcome \in {"invalid_options", "bind_failed", "ok"} :
                  IF outcome = "ok"
                  THEN /\ cell' = [cell EXCEPT ![h] = Listening("Some", sd.api)]
                       /\ loop' = [loop EXCEPT ![h] = SpawnedLoop]
                       /\ chan' = [chan EXCEPT ![h] = NewChan]
                       /\ thr' = [thr EXCEPT ![t] = Returned(t, SRT_SUCCESS)]
                  ELSE /\ cell' = [cell EXCEPT ![h] = ListenFailureCell(sd)]
                       /\ thr' = [thr EXCEPT ![t] =
                             set_error_fmt(t, "SRT_EINVOP",
                                 IF outcome = "invalid_options"
                                 THEN "Invalid options: .."
                                 ELSE "Failed to listen on socket: ..")]
                       /\ UNCHANGED <<loop, chan>>
           ELSE /\ cell' = [cell EXCEPT ![h] = RestoredCell(sd)]
                /\ thr' = [thr EXCEPT ![t] = set_error(t, "SRT_ECONNSOCK")]
                /\ UNCHANGED <<loop, chan>>
    /\ UNCHANGED <<sockets, next_sockid, lock, task, ncalls, delivered, closed>>

\* the task ends (normally or by a panic): its Sender is dropped
LoopEnds(h, how) ==
    /\ loop' = [loop EXCEPT ![h].pc = how]
    /\ chan' = [chan EXCEPT ![h].tx_dropped = TRUE]

\* incoming_stream.next().await yields a request: insert_socket(Accepting(None))
LoopNextRequest(h) ==
    /\ loop[h].pc = "next"
    /\ insert_socket(Accepting(None))
    /\ loop' = [loop EXCEPT ![h].pc = "getopts", ![h].new_sock = next_sockid,
                            ![h].opts = NoApi, ![h].ks = NA,
                            ![h].exception_thrown = 0, ![h].ret = 0]
    /\ UNCHANGED <<lock, thr, chan, task, ncalls, delivered, closed>>

\* incoming_stream.next().await yields None once the listener is closed
LoopStreamEnd(h) ==
    /\ loop[h].pc = "next"
    /\ loop[h].closing
    /\ LoopEnds(h, "done")
    /\ UNCHANGED <<sockets, next_sockid, cell, lock, thr, task, ncalls, delivered, closed>>

\* mutant: the guard taken for the copy is still alive when the callback runs
opts_guard_Kept(who) == who

\* let opts = { let l = sock.lock().unwrap(); *l.api_opts().unwrap() }: the
\* guard is a local of the block and is dropped at its end
opts_guard(who) == "free"

\* let l = sock.lock().unwrap(); *l.api_opts().unwrap()
LoopGetOpts(h) ==
    /\ loop[h].pc = "getopts"
    /\ \/ /\ lock[h] = "free"
          /\ has_api_opts(cell[h])
          /\ loop' = [loop EXCEPT ![h].opts = cell[h].api,
                        ![h].pc = IF cell[h].api.listen_cb # None
                                  THEN "callback" ELSE "takekeys"]
          /\ lock' = [lock EXCEPT ![h] = opts_guard("loop")]
          /\ UNCHANGED chan
       \/ /\ lock[h] = "free"
          /\ ~has_api_opts(cell[h])
          /\ lock' = [lock EXCEPT ![h] = "poisoned"]
          /\ LoopEnds(h, "panicked")
       \/ /\ lock[h] = "poisoned"
          /\ LoopEnds(h, "panicked")
          /\ UNCHANGED lock
    /\ UNCHANGED <<sockets, next_sockid, cell, thr, task, ncalls, delivered, closed>>

\* what the foreign callback can do: return zero, return non-zero (ret is
\* written through &mut ret), or throw (ret keeps the 0 it was given)
CallbackResults ==
    {[exception_thrown |-> 0, ret |-> 0], [exception_thrown |-> 0, ret |-> 1],
     [exception_thrown |-> 1, ret |-> 0]}

\* exception_thrown == 0 && ret == 0
accept(exception_thrown, ret) == exception_thrown = 0 /\ ret = 0

\* call_callback_wrap_exception(cb, ..., &mut ret), then `if !accept`
LoopCallback(h) ==
    /\ loop[h].pc = "callback"
    /\ \E r \in CallbackResults :
         loop' = [loop EXCEPT ![h].exception_thrown = r.exception_thrown,
                              ![h].ret = r.ret,
                              ![h].pc = IF accept(r.exception_thrown, r.ret)
                                        THEN "takekeys" ELSE "reject"]
    /\ UNCHANGED <<sockets, next_sockid, cell, lock, thr, chan, task, ncalls, delivered, closed>>

\* srt_close(new_sock) on the worker thread, then continue
LoopReject(h) ==
    /\ loop[h].pc = "reject"
    /\ lock[SOCKETS] = "free"
    /\ LET n == loop[h].new_sock IN
       \/ /\ get_sock(n) = <<>>
          /\ loop' = [loop EXCEPT ![h].pc = "next"]
          /\ UNCHANGED <<sockets, chan>>
       \/ /\ get_sock(n) # <<>>
          /\ lock[n] = "free"
          /\ cell[n].tag \notin {"Established", "Listening"}
          /\ sockets' = RemoveSocket(sockets, n)
          /\ loop' = [loop EXCEPT ![h].pc = "next"]
          /\ UNCHANGED chan
       \/ /\ get_sock(n) # <<>>
          /\ lock[n] = "poisoned"
          /\ LoopEnds(h, "panicked")
          /\ UNCHANGED sockets
    /\ UNCHANGED <<next_sockid, cell, lock, thr, task, ncalls, delivered, closed>>

\* get_sock(new_sock).expect(..); key_settings.take() if still Accepting
LoopTakeKeys(h) ==
    /\ loop[h].pc = "takekeys"
    /\ lock[SOCKETS] = "free"
    /\ LET n == loop[h].new_sock IN
       \/ /\ get_sock(n) = <<>>
          /\ LoopEnds(h, "panicked")
          /\ UNCHANGED cell
       \/ /\ get_sock(n) # <<>>
          /\ lock[n] = "poisoned"
          /\ LoopEnds(h, "panicked")
          /\ UNCHANGED cell
       \/ /\ get_sock(n) # <<>>
          /\ lock[n] = "free"
          /\ IF cell[n].tag = "Accepting"
             THEN /\ loop' = [loop EXCEPT ![h].pc = "handshake", ![h].ks = cell[n].ks]
                  /\ cell' = [cell EXCEPT ![n].ks = None]
             ELSE /\ loop' = [loop EXCEPT ![h].pc = "next"]
                  /\ cell' = cell
          /\ UNCHANGED chan
    /\ UNCHANGED <<sockets, next_sockid, lock, thr, task, ncalls, delivered, closed>>

\* req.accept(key_settings).await, then *l = Established(srt_socket, opts)
LoopHandshake(h) ==
    /\ loop[h].pc = "handshake"
    /\ LET n == loop[h].new_sock IN
       \/ /\ loop' = [loop EXCEPT ![h].pc = "next"]
          /\ UNCHANGED <<cell, chan>>
       \/ /\ lock[n] = "free"
          /\ cell' = [cell EXCEPT ![n] = Established(Session(None), loop[h].opts)]
          /\ loop' = [loop EXCEPT ![h].pc = "publish"]
          /\ UNCHANGED chan
       \/ /\ lock[n] = "poisoned"
          /\ LoopEnds(h, "panicked")
          /\ UNCHANGED cell
    /\ UNCHANGED <<sockets, next_sockid, lock, thr, task, ncalls, delivered, closed>>

\* s.send((new_sock, remote)).await: an error (receiver dropped) breaks the loop
LoopPublish(h) ==
    /\ loop[h].pc = "publish"
    /\ IF chan[h].rx_dropped
       THEN LoopEnds(h, "done")
       ELSE /\ Len(chan[h].q) < ChannelCapacity
            /\ chan' = [chan EXCEPT ![h].q = Append(@, loop[h].new_sock)]
            /\ loop' = [loop EXCEPT ![h].pc = "next"]
    /\ UNCHANGED <<sockets, next_sockid, cell, lock, thr, task, ncalls, delivered, closed>>

(***************************************************************************)
(* srt_connect and the task a non-blocking connect spawns                  *)
(***************************************************************************)
srt_connect_call(t, h, name) ==
    Enter(t, "connect", h, name, name # None)

\* mutant: the failure arm restores Initialized without the stream identifier
ConnectBlockingCell_DropsStreamId(res, so, streamid, options) ==
    IF res = "Ok"
    THEN Established(Session(streamid), options)
    ELSE Initialized(so, None, options)

\* blocking mode: the cell installed after sb.call(name, streamid) returned res
ConnectBlockingCell(res, so, streamid, options) ==
    IF res = "Ok"
    THEN Established(Session(streamid), options)
    ELSE Initialized(so, streamid, options)

\* non-blocking mode: the cell the spawned task installs; it calls
\* sb.call(name, None) and keeps the ApiOptions copied when it was spawned
ConnectTaskCell(res, options) ==
    IF res = "Ok"
    THEN Established(Session(None), options)
    ELSE ConnectFailed

\* mutant: the task writes its result without taking the mutex
TaskLocks_Unlocked(h) == lock[h] # "poisoned"

\* the task's sock_clone.lock().unwrap() returns: the mutex is free
TaskLocks(h) == lock[h] = "free"

\* lock, replace(&mut *l, InvalidIntermediateState); blocking mode starts the
\* handshake with the mutex held, non-blocking mode spawns the task
srt_connect(t) ==
    /\ AtLock(t, "connect")
    /\ LET h == thr[t].h
           sd == cell[h]
       IN  IF sd.tag = "Initialized"
           THEN /\ cell' = [cell EXCEPT ![h] = InvalidIntermediateState]
                /\ lock' = [lock EXCEPT ![h] = t]
                /\ IF sd.api.rcv_syn
                   THEN /\ thr' = [thr EXCEPT ![t].pc = "connect_wait", ![t].sd = sd]
                        /\ task' = task
                   ELSE /\ thr' = [thr EXCEPT ![t].pc = "connect_spawned", ![t].sd = sd]
                        \* the task owns a copy of options and calls
                        \* sb.call(name, None)
                        /\ task' = [task EXCEPT ![h] =
                                [pc |-> "running", options |-> sd.api,
                                 streamid |-> None, late |-> FALSE]]
           ELSE \* *l = sd (restore state)
                /\ cell' = [cell EXCEPT ![h] = RestoredCell(sd)]
                /\ thr' = [thr EXCEPT ![t] = set_error(t, "SRT_ECONNSOCK")]
                /\ UNCHANGED <<lock, task>>
    /\ UNCHANGED <<sockets, next_sockid, loop, chan, ncalls, delivered, closed>>

\* the blocking handshake completes or fails
srt_connect_finish(t) ==
    /\ thr[t].pc = "connect_wait"
    /\ LET h == thr[t].h
           sd == thr[t].sd
       IN  \E res \in {"Ok", "Err"} :
             /\ cell' = [cell EXCEPT ![h] =
                            ConnectBlockingCell(res, sd.so, sd.sid, sd.api)]
             /\ lock' = [lock EXCEPT ![h] = "free"]
             /\ thr' = [thr EXCEPT ![t] =
                            IF res = "Ok" THEN Returned(t, SRT_SUCCESS)
                            ELSE set_error_fmt(t, "SRT_ENOSERVER",
                                               "Failed to connect: ..")]
    /\ UNCHANGED <<sockets, next_sockid, loop, chan, task, ncalls, delivered, closed>>

\* non-blocking mode: *l = ConnectingNonBlocking(task, options), return
srt_connect_install(t) ==
    /\ thr[t].pc = "connect_spawned"
    /\ LET h == thr[t].h IN
       /\ cell' = [cell EXCEPT ![h] = ConnectingNonBlocking(thr[t].sd.api)]
       /\ lock' = [lock EXCEPT ![h] = "free"]
       /\ thr' = [thr EXCEPT ![t] = Returned(t, SRT_SUCCESS)]
    /\ UNCHANGED <<sockets, next_sockid, loop, chan, task, ncalls, delivered, closed>>

\* the spawned task: the handshake ends, then sock_clone.lock().unwrap() and
\* the write of its result ("late" records whether srt_close had already
\* returned for the handle)
ConnectTask(h) ==
    /\ task[h].pc = "running"
    /\ \/ /\ TaskLocks(h)
          /\ \E res \in {"Ok", "Err"} :
               cell' = [cell EXCEPT ![h] = ConnectTaskCell(res, task[h].options)]
          /\ task' = [task EXCEPT ![h].pc = "done", ![h].late = h \in closed]
       \/ /\ lock[h] = "poisoned"
          /\ task' = [task EXCEPT ![h].pc = "panicked"]
          /\ cell' = cell
    /\ UNCHANGED <<sockets, next_sockid, lock, thr, loop, chan, ncalls, delivered, closed>>

(***************************************************************************)
(* srt_accept                                                              *)
(***************************************************************************)
\* addrOk is FALSE for (Some(addr), None)
srt_accept_call(t, h, addrOk) ==
    Enter(t, "accept", h, NA, addrOk)

\* mutant: the receiver is handed to the call and also left in the cell
TakeIncoming_Keeps(rx) == rx

\* incoming.take(): what stays in the Listening cell
TakeIncoming(rx) == None

\* the receiver held by the call is dropped: the channel is closed and what
\* it still buffers is gone
DropReceiver(c) == [c EXCEPT !.rx_dropped = TRUE, !.q = <<>>]

srt_accept(t) ==
    /\ AtLock(t, "accept")
    /\ LET h == thr[t].h
           sd == cell[h]
       IN  IF sd.tag = "Listening"
           THEN IF sd.rx = None
                THEN /\ thr' = [thr EXCEPT ![t] =
                           set_error_fmt(t, "SRT_EINVOP",
                               "accept can only be called from one thread at a time")]
                     /\ cell' = cell
                ELSE \* drop(l): the wait happens with the mutex released
                     /\ cell' = [cell EXCEPT ![h].rx = TakeIncoming(sd.rx)]
                     /\ thr' = [thr EXCEPT ![t].pc = "accept_wait",
                                           ![t].incoming = h,
                                           ![t].opts = sd.api]
           ELSE /\ thr' = [thr EXCEPT ![t] = set_error(t, "SRT_ENOLISTEN")]
                /\ cell' = cell
    /\ UNCHANGED <<sockets, next_sockid, lock, loop, chan, task, ncalls, delivered, closed>>

\* incoming.next() yields a published (handle, peer address)
srt_accept_recv(t) ==
    /\ thr[t].pc = "accept_wait"
    /\ LET h == thr[t].h IN
       /\ chan[h].q # <<>>
       /\ thr' = [thr EXCEPT ![t].pc = "accept_putback",
                             ![t].new_sock = Head(chan[h].q)]
       /\ chan' = [chan EXCEPT ![h].q = Tail(@)]
    /\ UNCHANGED <<sockets, next_sockid, cell, lock, loop, task, ncalls, delivered, closed>>

\* incoming.next() yields None: every sender is gone and nothing is buffered
srt_accept_closed(t) ==
    /\ thr[t].pc = "accept_wait"
    /\ LET h == thr[t].h IN
       /\ chan[h].q = <<>>
       /\ chan[h].tx_dropped
       /\ thr' = [thr EXCEPT ![t] = set_error(t, "SRT_ESCLOSED")]
       /\ chan' = [chan EXCEPT ![h] = DropReceiver(@)]
    /\ UNCHANGED <<sockets, next_sockid, cell, lock, loop, task, ncalls, delivered, closed>>

\* non-blocking mode: the 10 ms timeout elapses with nothing published
srt_accept_timeout(t) ==
    /\ thr[t].pc = "accept_wait"
    /\ ~thr[t].opts.rcv_syn
    /\ LET h == thr[t].h IN
       /\ chan[h].q = <<>>
       /\ ~chan[h].tx_dropped
       /\ thr' = [thr EXCEPT ![t] = set_error(t, "SRT_EASYNCRCV")]
       /\ chan' = [chan EXCEPT ![h] = DropReceiver(@)]
    /\ UNCHANGED <<sockets, next_sockid, cell, lock, loop, task, ncalls, delivered, closed>>

\* "put listener back", then return new_sock
srt_accept_putback(t) ==
    /\ thr[t].pc = "accept_putback"
    /\ LET h == thr[t].h IN
       /\ lock[h] = "free"
       /\ IF cell[h].tag = "Listening"
          THEN /\ cell' = [cell EXCEPT ![h].rx = "Some"]
               /\ chan' = chan
          ELSE /\ cell' = cell
               /\ chan' = [chan EXCEPT ![h] = DropReceiver(@)]
       /\ thr' = [thr EXCEPT ![t] = Returned(t, thr[t].new_sock)]
       /\ delivered' = [delivered EXCEPT ![thr[t].new_sock] = @ + 1]
    /\ UNCHANGED <<sockets, next_sockid, lock, loop, task, ncalls, closed>>

(***************************************************************************)
(* srt_sendmsg2 (srt_send), srt_recv                                       *)
(***************************************************************************)
\* mutant: a handle whose connect is still in flight passes for connected
IsEstablished_OrConnecting(sd) ==
    sd.tag \in {"Established", "ConnectingNonBlocking"}

\* the pattern SocketData::Established(..) of srt_sendmsg2 and srt_recv
IsEstablished(sd) == sd.tag = "Established"

BufLens == {1, 2}
UnitLens == {1, 2}

\* the bytes of the payloads the peer sends
UnitBytes == {1, 2}

\* the payloads the session can deliver
Units == UNION {[1..n -> UnitBytes] : n \in UnitLens}

\* what the caller's buffer holds before the call: bytes no payload carries
CallerBuffer(len) == [i \in 1..len |-> 7 + i]

srt_send_call(t, h, len) ==
    Enter(t, "send", h, len, TRUE)

\* lock and match; on an Established cell sock.try_send(..) is called with
\* the mutex held, and the session takes the payload or rejects it
srt_sendmsg2(t) ==
    /\ AtLock(t, "send")
    /\ LET h == thr[t].h IN
       IF IsEstablished(cell[h])
       THEN /\ \E pc \in {"send_taken", "send_rejected"} :
                 thr' = [thr EXCEPT ![t].pc = pc]
            /\ lock' = [lock EXCEPT ![h] = t]
       ELSE /\ thr' = [thr EXCEPT ![t] = set_error(t, "SRT_ENOCONN")]
            /\ lock' = lock
    /\ UNCHANGED <<sockets, next_sockid, cell, loop, chan, task, ncalls, delivered, closed>>

\* mutant: the result of try_send is dropped and the length returned
SendReturn_IgnoresErr(t, rejected) == Returned(t, thr[t].arg)

\* if try_send(..).is_err() { return set_error(SRT_ELARGEMSG) } ... len
SendReturn(t, rejected) ==
    IF rejected THEN set_error(t, "SRT_ELARGEMSG") ELSE Returned(t, thr[t].arg)

\* the return of srt_sendmsg2 after try_send; the cell is not assigned
srt_send_return(t) ==
    /\ thr[t].pc \in {"send_taken", "send_rejected"}
    /\ thr' = [thr EXCEPT ![t] = SendReturn(t, thr[t].pc = "send_rejected")]
    /\ lock' = [lock EXCEPT ![thr[t].h] = "free"]
    /\ UNCHANGED <<sockets, next_sockid, cell, loop, chan, task, ncalls, delivered, closed>>

\* from_raw_parts_mut(buf, len): bytes is the caller's memory
srt_recv_call(t, h, bytes) ==
    EnterWith(t, "recv", h, Len(bytes), TRUE, bytes)

\* mutant: the guard is released before the wait, as srt_accept does
recv_guard_Dropped(who) == "free"

\* let mut l = sock.lock().unwrap(): l borrows into the block_on future and
\* lives until srt_recv returns
recv_guard(who) == who

\* the mutex stays locked while block_on waits for the next unit
srt_recv(t) ==
    /\ AtLock(t, "recv")
    /\ LET h == thr[t].h IN
       IF IsEstablished(cell[h])
       THEN /\ lock' = [lock EXCEPT ![h] = recv_guard(t)]
            /\ thr' = [thr EXCEPT ![t].pc = "recv_wait", ![t].opts = cell[h].api]
       ELSE /\ lock' = lock
            /\ thr' = [thr EXCEPT ![t] = set_error(t, "SRT_ENOCONN")]
    /\ UNCHANGED <<sockets, next_sockid, cell, loop, chan, task, ncalls, delivered, closed>>

\* sock.next() resolves (or the 10 ms timeout of the non-blocking mode ends):
\* Some(Ok((_, recvd))) binds recvd, the other results return an error
srt_recv_finish(t) ==
    /\ thr[t].pc = "recv_wait"
    /\ LET h == thr[t].h IN
       \/ /\ \E d \in Units :
               thr' = [thr EXCEPT ![t].pc = "recv_copy", ![t].recvd = d]
          /\ lock' = lock
       \/ \* Some(Err(e)) => set_error_fmt(SRT_ECONNLOST, e); None => set_error(..)
          /\ \E args \in {"SRT_ECONNLOST", "receive error: .."} :
               thr' = [thr EXCEPT ![t] = set_error_fmt(t, "SRT_ECONNLOST", args)]
          /\ lock' = [lock EXCEPT ![h] = "free"]
       \/ /\ ~thr[t].opts.rcv_syn
          /\ thr' = [thr EXCEPT ![t] = set_error(t, "SRT_EASYNCRCV")]
          /\ lock' = [lock EXCEPT ![h] = "free"]
    /\ UNCHANGED <<sockets, next_sockid, cell, loop, chan, task, ncalls, delivered, closed>>

\* mutant: the whole unit is counted, whatever the buffer holds
bytes_to_write_UnitLen(buflen, unitlen) == unitlen

\* min(bytes.len(), recvd.len())
bytes_to_write(buflen, unitlen) == IF buflen < unitlen THEN buflen ELSE unitlen

\* bytes[..n].copy_from_slice(&recvd[..n])
copy_from_slice(bytes, recvd, n) ==
    [i \in 1..Len(bytes) |-> IF i <= n THEN recvd[i] ELSE bytes[i]]

\* the copy into the caller's buffer and the return of the count
srt_recv_copy(t) ==
    /\ thr[t].pc = "recv_copy"
    /\ LET h == thr[t].h
           bytes == thr[t].out
           recvd == thr[t].recvd
           n == bytes_to_write(Len(bytes), Len(recvd))
       IN  /\ lock' = [lock EXCEPT ![h] = "free"]
           /\ thr' = [thr EXCEPT ![t] =
                         [Returned(t, n) EXCEPT !.out = copy_from_slice(bytes, recvd, n)]]
    /\ UNCHANGED <<sockets, next_sockid, cell, loop, chan, task, ncalls, delivered, closed>>

(***************************************************************************)
(* srt_setsockflag, srt_getsockflag, srt_listen_callback                   *)
(***************************************************************************)
\* size_of::<c_int>(), size_of::<i64>()
SizeOfInt == 4
SizeOfI64 == 8

\* the memory behind optval as srt_setsockflag may read it, with optlen: a
\* c_int, an i64 or a string
IntArg(opt, i, len) == [opt |-> opt, len |-> len, int |-> i, i64 |-> Zero64, str |-> ""]
I64Arg(opt, i, len) == [opt |-> opt, len |-> len, int |-> 0, i64 |-> i, str |-> ""]
StrArg(opt, str) == [opt |-> opt, len |-> 0, int |-> 0, i64 |-> Zero64, str |-> str]

\* the values the calling threads pass
BoolValues == {0, 1, 2}
MillisValues == {-1, 0, 1500, 2147483647}
I64Values == {Zero64, <<1, 0, 0, 0>>, <<0, 0, 1, 0>>,
              <<65535, 65535, 65535, -1>>, <<0, 0, 0, -32768>>}
MillisOptions == {"SRTO_CONNTIMEO", "SRTO_RCVLATENCY", "SRTO_PEERLATENCY"}

\* an option the bridge has no arm for
SomeOtherOption == "SRTO_MSS"

SetFlagArgs ==
    {IntArg(o, v, SizeOfInt) : o \in {"SRTO_RCVSYN", "SRTO_SNDSYN", "SRTO_TSBPDMODE"},
                               v \in BoolValues}
    \cup {IntArg("SRTO_RCVSYN", 1, SizeOfI64)}
    \cup {IntArg(o, v, SizeOfInt) : o \in MillisOptions, v \in MillisValues}
    \cup {IntArg("SRTO_CONNTIMEO", 1500, SizeOfI64)}
    \cup {I64Arg("SRTO_MININPUTBW", v, SizeOfI64) : v \in I64Values}
    \cup {I64Arg("SRTO_MININPUTBW", Zero64, SizeOfInt)}
    \cup {StrArg("SRTO_STREAMID", v) : v \in StreamIds \cup {"", BadString}}
    \cup {StrArg("SRTO_PASSPHRASE", v) : v \in Passphrases \cup {BadString}}
    \cup {IntArg(o, 1, SizeOfInt) : o \in {"SRTO_SENDER", SomeOtherOption}}
    \cup {IntArg("SRTO_SENDER", 1, SizeOfI64)}

\* extract_int: Some(value) only for a length of exactly 4
extract_int_ok(len) == len = SizeOfInt

\* extract_i64: Some(value) only for a length of exactly 8
extract_i64_ok(len) == len = SizeOfI64

\* extract_bool, given extract_int returned Some(val): 0 is false, the rest true
extract_bool(val) == val # 0

\* extract_int(..).map(u64::try_from) is Some(Ok(_)): the length is 4 and the
\* value is not negative
extract_millis_ok(a) == extract_int_ok(a.len) /\ a.int >= 0

\* a panic of thread t while it holds the mutex of h
PanicHolding(t, h) ==
    /\ thr' = [thr EXCEPT ![t] = Panicked(t)]
    /\ lock' = [lock EXCEPT ![h] = "poisoned"]

srt_setsockflag_call(t, h, a) ==
    Enter(t, "setsockflag", h, a, TRUE)

\* the three ways out of srt_setsockflag, with the cell it leaves
SetOk(sd) == [ret |-> "SRT_SUCCESS", sd |-> sd]
SetErr(sd, e) == [ret |-> e, sd |-> sd]
SetUnimplemented(sd) == [ret |-> "unimplemented", sd |-> sd]

\* the body of srt_setsockflag under the mutex: the Accepting arm, the
\* SRTO_STREAMID arm, then match (opt, sock.opts_mut())
set_option(sd, a) ==
    IF sd.tag = "Accepting"
    THEN CASE a.opt = "SRTO_PASSPHRASE" ->
                IF a.str = BadString THEN SetErr(sd, "SRT_EINVPARAM")
                ELSE SetOk([sd EXCEPT !.ks = a.str])
           [] a.opt = "SRTO_RCVLATENCY" -> SetOk(sd)
           [] OTHER -> SetUnimplemented(sd)
    ELSE IF a.opt = "SRTO_STREAMID"
    THEN IF sd.tag = "Initialized"
         THEN IF a.str = BadString THEN SetErr(sd, "SRT_EINVPARAM")
              ELSE SetOk([sd EXCEPT !.sid = a.str])
         ELSE SetErr(sd, "SRT_ECONNSOCK")
    ELSE IF a.opt = "SRTO_SENDER" THEN SetOk(sd)
    ELSE IF a.opt = "SRTO_RCVSYN" /\ has_api_opts(sd)
    THEN IF ~extract_int_ok(a.len) THEN SetErr(sd, "SRT_EINVPARAM")
         ELSE SetOk([sd EXCEPT !.api.rcv_syn = extract_bool(a.int)])
    ELSE IF a.opt = "SRTO_SNDSYN" /\ has_api_opts(sd)
    THEN IF ~extract_int_ok(a.len) THEN SetErr(sd, "SRT_EINVPARAM")
         ELSE SetOk([sd EXCEPT !.api.snd_syn = extract_bool(a.int)])
    ELSE IF a.opt = "SRTO_CONNTIMEO" /\ has_sock_opts(sd)
    THEN IF ~extract_millis_ok(a) THEN SetErr(sd, "SRT_EINVPARAM")
         ELSE SetOk([sd EXCEPT !.so.timeout = from_millis(a.int)])
    ELSE IF a.opt = "SRTO_TSBPDMODE"
    THEN IF extract_int_ok(a.len) /\ extract_bool(a.int) THEN SetOk(sd)
         ELSE SetErr(sd, "SRT_EINVPARAM")
    ELSE IF a.opt = "SRTO_PASSPHRASE" /\ has_sock_opts(sd)
    THEN IF a.str = BadString THEN SetErr(sd, "SRT_EINVPARAM")
         ELSE SetOk([sd EXCEPT !.so.passphrase = a.str])
    ELSE IF a.opt = "SRTO_RCVLATENCY" /\ has_sock_opts(sd)
    THEN IF ~extract_millis_ok(a) THEN SetErr(sd, "SRT_EINVPARAM")
         ELSE SetOk([sd EXCEPT !.so.latency = from_millis(a.int)])
    ELSE IF a.opt = "SRTO_PEERLATENCY" /\ has_sock_opts(sd)
    THEN IF ~extract_millis_ok(a) THEN SetErr(sd, "SRT_EINVPARAM")
         ELSE SetOk([sd EXCEPT !.so.peer_latency = from_millis(a.int)])
    ELSE IF a.opt = "SRTO_MININPUTBW" /\ has_sock_opts(sd)
    THEN IF ~extract_i64_ok(a.len) THEN SetErr(sd, "SRT_EINVPARAM")
         ELSE SetOk([sd EXCEPT !.so.bandwidth =
                        Estimated(as_u64(a.i64),
                                  IF sd.so.bandwidth.mode = "Estimated"
                                  THEN sd.so.bandwidth.overhead
                                  ELSE DefaultOverhead)])
    ELSE \* (o, _) => unimplemented!()
         SetUnimplemented(sd)

srt_setsockflag(t) ==
    /\ AtLock(t, "setsockflag")
    /\ LET h == thr[t].h
           r == set_option(cell[h], thr[t].arg)
       IN  /\ cell' = [cell EXCEPT ![h] = r.sd]
           /\ IF r.ret = "unimplemented" THEN PanicHolding(t, h)
              ELSE /\ lock' = lock
                   /\ thr' = [thr EXCEPT ![t] =
                                 IF r.ret = "SRT_SUCCESS"
                                 THEN Returned(t, SRT_SUCCESS)
                                 ELSE set_error(t, r.ret)]
    /\ UNCHANGED <<sockets, next_sockid, loop, chan, task, ncalls, delivered, closed>>

\* str.as_bytes().len() of the strings of the model
StrLen(str) == IF str = "" THEN 0 ELSE 4

\* Option<&str>.unwrap_or("")
unwrap_or_empty(o) == IF o = None THEN "" ELSE o

\* the (option, capacity) pairs the calling threads pass
GetFlagArgs ==
    [opt : {"SRTO_RCVSYN", "SRTO_STREAMID", "SRTO_CONNTIMEO", "SRTO_MININPUTBW"},
     optlen : {SizeOfInt, SizeOfI64}]
    \cup [opt : {"SRTO_SNDSYN", "SRTO_RCVLATENCY", "SRTO_PEERLATENCY", SomeOtherOption},
          optlen : {SizeOfInt}]

\* the caller's memory behind optval and optlen before the call; the three
\* views are the memory read as a c_int, as an i64 and as a C string
OptBuffer(optlen) ==
    [written |-> FALSE, int |-> 0, i64 |-> Zero64, str |-> "", nul |-> FALSE,
     optlen |-> optlen]

\* ptrOk is FALSE when optval or optlen is null
srt_getsockflag_call(t, h, a, ptrOk) ==
    EnterWith(t, "getsockflag", h, a, ptrOk, OptBuffer(a.optlen))

\* enum Val, and the two ways srt_getsockflag ends without one
ValBool(b) == [kind |-> "Bool", int |-> IF b THEN 1 ELSE 0, i64 |-> Zero64, str |-> ""]
ValInt(i) == [kind |-> "Int", int |-> i, i64 |-> Zero64, str |-> ""]
ValInt64(i) == [kind |-> "Int64", int |-> 0, i64 |-> i, str |-> ""]
ValStr(str) == [kind |-> "Str", int |-> 0, i64 |-> Zero64, str |-> str]
NoVal(why) == [kind |-> why, int |-> 0, i64 |-> Zero64, str |-> ""]

\* Int64(match bandwidth { .. rate.0 as i64, Unlimited => 0 })
bandwidth_value(bandwidth) ==
    IF bandwidth.mode = "Unlimited" THEN Zero64 ELSE as_i64(bandwidth.rate)

\* `let val = ...` of srt_getsockflag: the SRTO_STREAMID arm, then
\* match (opt, l.api_opts(), l.sock_opts(), l.conn_settings()).  The
\* durations of the model are below 2^31 ms, where `as c_int` keeps the value.
get_option(sd, opt) ==
    IF opt = "SRTO_STREAMID"
    THEN CASE sd.tag = "Initialized" -> ValStr(unwrap_or_empty(sd.sid))
           [] sd.tag = "Established" -> ValStr(unwrap_or_empty(sd.sess.stream_id))
           [] OTHER -> NoVal("SRT_EBOUNDSOCK")
    ELSE IF opt = "SRTO_RCVSYN" /\ has_api_opts(sd) THEN ValBool(sd.api.rcv_syn)
    ELSE IF opt = "SRTO_SNDSYN" /\ has_api_opts(sd) THEN ValBool(sd.api.snd_syn)
    ELSE IF opt = "SRTO_CONNTIMEO" /\ has_sock_opts(sd)
    THEN ValInt(as_millis(sd.so.timeout))
    ELSE IF opt = "SRTO_RCVLATENCY" /\ has_sock_opts(sd)
    THEN ValInt(as_millis(sd.so.latency))
    ELSE IF opt = "SRTO_RCVLATENCY" /\ has_conn_settings(sd)
    THEN ValInt(as_millis(sd.sess.recv_tsbpd_latency))
    ELSE IF opt = "SRTO_PEERLATENCY" /\ has_sock_opts(sd)
    THEN ValInt(as_millis(sd.so.peer_latency))
    ELSE IF opt = "SRTO_PEERLATENCY" /\ has_conn_settings(sd)
    THEN ValInt(as_millis(sd.sess.send_tsbpd_latency))
    ELSE IF opt = "SRTO_MININPUTBW" /\ has_sock_opts(sd)
    THEN ValInt64(bandwidth_value(sd.so.bandwidth))
    ELSE IF opt = "SRTO_MININPUTBW" /\ has_conn_settings(sd)
    THEN ValInt64(bandwidth_value(sd.sess.bandwidth))
    ELSE \* _ => unimplemented!()
         NoVal("unimplemented")

\* `match val`: the capacity check of each kind
fits(val, optlen) ==
    CASE val.kind = "Bool" -> optlen = SizeOfInt
      [] val.kind = "Int" -> optlen >= SizeOfInt
      [] val.kind = "Int64" -> optlen >= SizeOfI64
      [] val.kind = "Str" -> optlen >= StrLen(val.str) + 1

\* `match val`: what is written through optval and optlen
write_val(mem, val) ==
    CASE val.kind = "Bool" -> [mem EXCEPT !.written = TRUE, !.int = val.int]
      [] val.kind = "Int" ->
            [mem EXCEPT !.written = TRUE, !.int = val.int, !.optlen = SizeOfInt]
      [] val.kind = "Int64" ->
            [mem EXCEPT !.written = TRUE, !.i64 = val.i64, !.optlen = SizeOfI64]
      [] val.kind = "Str" ->
            [mem EXCEPT !.written = TRUE, !.str = val.str, !.nul = TRUE,
                        !.optlen = StrLen(val.str)]

srt_getsockflag(t) ==
    /\ AtLock(t, "getsockflag")
    /\ LET h == thr[t].h
           a == thr[t].arg
           val == get_option(cell[h], a.opt)
       IN  IF val.kind = "unimplemented" THEN PanicHolding(t, h)
           ELSE /\ lock' = lock
                /\ thr' = [thr EXCEPT ![t] =
                      IF val.kind = "SRT_EBOUNDSOCK" THEN set_error(t, "SRT_EBOUNDSOCK")
                      ELSE IF ~fits(val, a.optlen) THEN set_error(t, "SRT_EINVPARAM")
                      ELSE [Returned(t, SRT_SUCCESS) EXCEPT
                               !.out = write_val(thr[t].out, val)]]
    /\ UNCHANGED <<sockets, next_sockid, cell, loop, chan, task, ncalls, delivered, closed>>

srt_listen_callback_call(t, h, hook_fn) ==
    Enter(t, "listen_callback", h, hook_fn, TRUE)

srt_listen_callback(t) ==
    /\ AtLock(t, "listen_callback")
    /\ LET h == thr[t].h IN
       IF has_api_opts(cell[h])
       THEN /\ cell' = [cell EXCEPT ![h].api.listen_cb = thr[t].arg]
            /\ thr' = [thr EXCEPT ![t] = Returned(t, SRT_SUCCESS)]
       ELSE /\ cell' = cell
            /\ thr' = [thr EXCEPT ![t] = set_error(t, "SRT_ENOCONN")]
    /\ UNCHANGED <<sockets, next_sockid, lock, loop, chan, task, ncalls, delivered, closed>>

(***************************************************************************)
(* srt_close                                                               *)
(***************************************************************************)
srt_close_call(t, h) ==
    Enter(t, "close", h, NA, TRUE)

\* mutant: a handle whose connect is still in flight is left in the registry
CloseRegistry_KeepsConnecting(socks, socknum, tag, res) ==
    IF tag = "ConnectingNonBlocking" THEN socks ELSE RemoveSocket(socks, socknum)

\* mutant: a failed close_and_finish returns before sockets.remove
CloseRegistry_KeepsOnFailure(socks, socknum, tag, res) ==
    IF res = "Err" THEN socks ELSE RemoveSocket(socks, socknum)

\* the registry after the tail of srt_close: sockets.remove(&socknum) runs
\* whatever variant the match saw and whatever close_and_finish returned
CloseRegistry(socks, socknum, tag, res) == RemoveSocket(socks, socknum)

\* *l = SocketData::Closed drops the receiver the Listening cell may hold
ClosedListenerChan(sd, c) ==
    IF sd.rx = "Some" THEN DropReceiver(c) ELSE c

srt_close(t) ==
    /\ AtLock(t, "close")
    /\ LET h == thr[t].h
           sd == cell[h]
       IN  IF sd.tag = "Established"
           THEN \E res \in {"Ok", "Err"} :
                  /\ cell' = [cell EXCEPT ![h] = Closed]
                  /\ lock[SOCKETS] = "free"
                  /\ sockets' = CloseRegistry(sockets, h, sd.tag, res)
                  /\ thr' = [thr EXCEPT ![t] =
                                IF res = "Ok" THEN Returned(t, SRT_SUCCESS)
                                ELSE set_error_fmt(t, "SRT_EINVOP",
                                                   "Failed to close socket: ..")]
                  /\ UNCHANGED <<lock, loop>>
           ELSE IF sd.tag = "Listening"
           THEN \* listener.close().await; then jh.await with the mutex held
                /\ loop' = [loop EXCEPT ![h].closing = TRUE]
                /\ lock' = [lock EXCEPT ![h] = t]
                /\ thr' = [thr EXCEPT ![t].pc = "close_wait"]
                /\ UNCHANGED <<cell, sockets>>
           ELSE /\ lock[SOCKETS] = "free"
                /\ sockets' = CloseRegistry(sockets, h, sd.tag, "Ok")
                /\ thr' = [thr EXCEPT ![t] = Returned(t, SRT_SUCCESS)]
                /\ UNCHANGED <<cell, lock, loop>>
    /\ closed' = IF thr'[t].pc = "idle" THEN closed \cup {thr[t].h} ELSE closed
    /\ UNCHANGED <<next_sockid, chan, task, ncalls, delivered>>

\* jh.await returns: the accept loop has ended
srt_close_joined(t) ==
    /\ thr[t].pc = "close_wait"
    /\ LET h == thr[t].h IN
       \/ /\ loop[h].pc = "done"
          /\ cell' = [cell EXCEPT ![h] = Closed]
          /\ chan' = [chan EXCEPT ![h] = ClosedListenerChan(cell[h], @)]
          /\ lock' = [lock EXCEPT ![h] = "free"]
          /\ lock[SOCKETS] = "free"
          /\ sockets' = CloseRegistry(sockets, h, cell[h].tag, "Ok")
          /\ thr' = [thr EXCEPT ![t] = Returned(t, SRT_SUCCESS)]
       \/ \* jh.await.unwrap() on a task that panicked
          /\ loop[h].pc = "panicked"
          /\ PanicHolding(t, h)
          /\ UNCHANGED <<cell, chan, sockets>>
    /\ closed' = IF thr'[t].pc = "idle" THEN closed \cup {thr[t].h} ELSE closed
    /\ UNCHANGED <<next_sockid, loop, task, ncalls, delivered>>

(***************************************************************************)
(* The program                                                             *)
(***************************************************************************)
\* The handles the callers pass are those the counter has handed out so far
\* (a value never handed out takes the EINVSOCK path of a removed one).  The
\* second thread is there for concurrency: it starts a call only while the
\* first is inside one.
MayCall(t) == t = "t1" \/ thr["t1"].pc # "idle"
Allocated == FirstSockId .. (next_sockid - 1)

Calls(t) ==
    /\ MayCall(t)
    /\ \/ srt_create_socket(t)
       \/ srt_cleanup(t)
       \/ \E h \in Allocated :
            \/ \E name \in {"addrA", None} : srt_bind_call(t, h, name)
            \/ srt_listen_call(t, h)
            \/ \E name \in {"addrA", None} : srt_connect_call(t, h, name)
            \/ \E addrOk \in BOOLEAN : srt_accept_call(t, h, addrOk)
            \/ \E len \in {1} : srt_send_call(t, h, len)
            \/ \E len \in BufLens : srt_recv_call(t, h, CallerBuffer(len))
            \/ \E a \in SetFlagArgs : srt_setsockflag_call(t, h, a)
            \/ \E a \in GetFlagArgs : srt_getsockflag_call(t, h, a, TRUE)
            \/ srt_getsockflag_call(t, h, [opt |-> "SRTO_RCVSYN", optlen |-> SizeOfInt], FALSE)
            \/ \E cb \in Callbacks : srt_listen_callback_call(t, h, cb)
            \/ srt_close_call(t, h)

Steps(t) ==
    \/ LockPoisoned(t)
    \/ srt_bind(t)
    \/ srt_listen(t)
    \/ srt_connect(t)
    \/ srt_connect_finish(t)
    \/ srt_connect_install(t)
    \/ srt_accept(t)
    \/ srt_accept_recv(t)
    \/ srt_accept_closed(t)
    \/ srt_accept_timeout(t)
    \/ srt_accept_putback(t)
    \/ srt_sendmsg2(t)
    \/ srt_send_return(t)
    \/ srt_recv(t)
    \/ srt_recv_finish(t)
    \/ srt_recv_copy(t)
    \/ srt_setsockflag(t)
    \/ srt_getsockflag(t)
    \/ srt_listen_callback(t)
    \/ srt_close(t)
    \/ srt_close_joined(t)

AcceptLoop(h) ==
    \/ LoopNextRequest(h)
    \/ LoopStreamEnd(h)
    \/ LoopGetOpts(h)
    \/ LoopCallback(h)
    \/ LoopReject(h)
    \/ LoopTakeKeys(h)
    \/ LoopHandshake(h)
    \/ LoopPublish(h)

Next ==
    \/ \E t \in Threads : Calls(t)
    \/ \E t \in Threads : Steps(t)
    \/ \E h \in Handles : AcceptLoop(h)
    \/ \E h \in Handles : ConnectTask(h)

Spec == Init /\ [][Next]_vars

(***************************************************************************)
(* The caller side of a connection: the calls a client makes.              *)
(***************************************************************************)
RcvSynOff == IntArg("SRTO_RCVSYN", 0, SizeOfInt)
StreamIdA == StrArg("SRTO_STREAMID", "sidA")

ConnectCalls(t) ==
    /\ MayCall(t)
    /\ \/ srt_create_socket(t)
       \/ \E h \in Allocated :
            \/ srt_bind_call(t, h, "addrA")
            \/ srt_connect_call(t, h, "addrA")
            \/ \E a \in {RcvSynOff, StreamIdA} : srt_setsockflag_call(t, h, a)
            \/ srt_listen_callback_call(t, h, "cb1")
            \/ srt_listen_call(t, h)
            \/ srt_accept_call(t, h, TRUE)
            \/ srt_send_call(t, h, 1)
            \/ srt_recv_call(t, h, CallerBuffer(1))
            \/ srt_close_call(t, h)

ConnectSteps(t) ==
    \/ LockPoisoned(t)
    \/ srt_bind(t)
    \/ srt_connect(t)
    \/ srt_connect_finish(t)
    \/ srt_connect_install(t)
    \/ srt_setsockflag(t)
    \/ srt_listen_callback(t)
    \/ srt_listen(t)
    \/ srt_accept(t)
    \/ srt_sendmsg2(t)
    \/ srt_send_return(t)
    \/ srt_recv(t)
    \/ srt_recv_finish(t)
    \/ srt_recv_copy(t)
    \/ srt_close(t)

ConnectNext ==
    \/ \E t \in Threads : ConnectCalls(t)
    \/ \E t \in Threads : ConnectSteps(t)
    \/ \E h \in Handles : ConnectTask(h)

ConnectSpec == Init /\ [][ConnectNext]_vars

(***************************************************************************)
(* Options of a handle nothing else is done to: every option, every value. *)
(***************************************************************************)
\* one caller sets and gets; the other steps in once the first has panicked
OptionCalls(t) ==
    /\ t = "t1" \/ thr["t1"].pc = "panicked"
    /\ \/ srt_create_socket(t)
       \/ \E h \in Allocated :
            \/ \E a \in SetFlagArgs : srt_setsockflag_call(t, h, a)
            \/ \E a \in GetFlagArgs : srt_getsockflag_call(t, h, a, TRUE)

OptionSteps(t) ==
    \/ LockPoisoned(t)
    \/ srt_setsockflag(t)
    \/ srt_getsockflag(t)

OptionNext ==
    \/ \E t \in Threads : OptionCalls(t)
    \/ \E t \in Threads : OptionSteps(t)

OptionSpec == Init /\ [][OptionNext]_vars

(***************************************************************************)
(* Options on the handles of a listener: the calls an accept callback (or  *)
(* any other thread) makes on the listening handle and on the handles the  *)
(* accept loop allocates.                                                  *)
(***************************************************************************)
AcceptingSetArgs ==
    {StrArg("SRTO_PASSPHRASE", "passphraseA"), StrArg("SRTO_STREAMID", "sidA"),
     IntArg("SRTO_RCVLATENCY", 1500, SizeOfInt), IntArg(SomeOtherOption, 1, SizeOfInt)}

StreamIdGet == [opt |-> "SRTO_STREAMID", optlen |-> SizeOfI64]

CallbackCalls(t) ==
    /\ MayCall(t)
    /\ \/ srt_create_socket(t)
       \/ \E h \in Allocated :
            \/ srt_listen_callback_call(t, h, "cb1")
            \/ srt_listen_call(t, h)
            \/ \E a \in AcceptingSetArgs : srt_setsockflag_call(t, h, a)
            \/ srt_getsockflag_call(t, h, StreamIdGet, TRUE)

CallbackSteps(t) ==
    \/ LockPoisoned(t)
    \/ srt_listen_callback(t)
    \/ srt_listen(t)
    \/ srt_setsockflag(t)
    \/ srt_getsockflag(t)

\* the accept loop of a listener nobody closes
CallbackLoop(h) ==
    \/ LoopNextRequest(h)
    \/ LoopGetOpts(h)
    \/ LoopCallback(h)
    \/ LoopReject(h)
    \/ LoopTakeKeys(h)
    \/ LoopHandshake(h)
    \/ LoopPublish(h)

CallbackNext ==
    \/ \E t \in Threads : CallbackCalls(t)
    \/ \E t \in Threads : CallbackSteps(t)
    \/ \E h \in Handles : CallbackLoop(h)

CallbackSpec == Init /\ [][CallbackNext]_vars

(***************************************************************************)
(* Data transfer on a connected handle: buffers of every length.           *)
(***************************************************************************)
TransferCalls(t) ==
    /\ MayCall(t)
    /\ \/ srt_create_socket(t)
       \/ \E h \in Allocated :
            \/ srt_setsockflag_call(t, h, RcvSynOff)
            \/ srt_connect_call(t, h, "addrA")
            \/ srt_send_call(t, h, 1)
            \/ \E len \in BufLens : srt_recv_call(t, h, CallerBuffer(len))

TransferSteps(t) ==
    \/ srt_setsockflag(t)
    \/ srt_connect(t)
    \/ srt_connect_finish(t)
    \/ srt_connect_install(t)
    \/ srt_sendmsg2(t)
    \/ srt_send_return(t)
    \/ srt_recv(t)
    \/ srt_recv_finish(t)
    \/ srt_recv_copy(t)

TransferNext ==
    \/ \E t \in Threads : TransferCalls(t)
    \/ \E t \in Threads : TransferSteps(t)
    \/ \E h \in Handles : ConnectTask(h)

TransferSpec == Init /\ [][TransferNext]_vars

(***************************************************************************)
(* The listener side: the calls a server makes, and its accept loops.      *)
(***************************************************************************)
ListenCalls(t) ==
    /\ MayCall(t)
    /\ \/ srt_create_socket(t)
       \/ \E h \in Allocated :
            \/ srt_setsockflag_call(t, h, RcvSynOff)
            \/ srt_listen_callback_call(t, h, "cb1")
            \/ srt_listen_call(t, h)
            \/ srt_accept_call(t, h, TRUE)
            \/ srt_close_call(t, h)

ListenSteps(t) ==
    \/ LockPoisoned(t)
    \/ srt_setsockflag(t)
    \/ srt_listen_callback(t)
    \/ srt_listen(t)
    \/ srt_accept(t)
    \/ srt_accept_recv(t)
    \/ srt_accept_closed(t)
    \/ srt_accept_timeout(t)
    \/ srt_accept_putback(t)
    \/ srt_close(t)
    \/ srt_close_joined(t)

ListenNext ==
    \/ \E t \in Threads : ListenCalls(t)
    \/ \E t \in Threads : ListenSteps(t)
    \/ \E h \in Handles : AcceptLoop(h)

ListenSpec == Init /\ [][ListenNext]_vars

(***************************************************************************)
(* Every handle operation of the boundary, on handles of a client.         *)
(***************************************************************************)
RcvSynGet == [opt |-> "SRTO_RCVSYN", optlen |-> SizeOfInt]

ApiCalls(t) ==
    \/ ConnectCalls(t)
    \/ /\ MayCall(t)
       /\ \E h \in Allocated : srt_getsockflag_call(t, h, RcvSynGet, TRUE)

ApiSteps(t) ==
    \/ ConnectSteps(t)
    \/ srt_getsockflag(t)

ApiNext ==
    \/ \E t \in Threads : ApiCalls(t)
    \/ \E t \in Threads : ApiSteps(t)
    \/ \E h \in Handles : ConnectTask(h)

ApiSpec == Init /\ [][ApiNext]_vars

(***************************************************************************)
(* Allocation: handles handed out by callers and by accept loops, removed  *)
(* by srt_close and srt_cleanup.                                           *)
(***************************************************************************)
AllocCalls(t) ==
    /\ MayCall(t)
    /\ \/ srt_create_socket(t)
       \/ srt_cleanup(t)
       \/ \E h \in Allocated :
            \/ srt_listen_callback_call(t, h, "cb1")
            \/ srt_listen_call(t, h)
            \/ srt_close_call(t, h)

AllocSteps(t) ==
    \/ srt_listen_callback(t)
    \/ srt_listen(t)
    \/ srt_close(t)
    \/ srt_close_joined(t)

AllocNext ==
    \/ \E t \in Threads : AllocCalls(t)
    \/ \E t \in Threads : AllocSteps(t)
    \/ \E h \in Handles : AcceptLoop(h)

AllocSpec == Init /\ [][AllocNext]_vars

(***************************************************************************)
(* Teardown: handles brought into each lifecycle state and closed.         *)
(***************************************************************************)
CloseCalls(t) ==
    /\ MayCall(t)
    /\ \/ srt_create_socket(t)
       \/ \E h \in Allocated :
            \/ srt_setsockflag_call(t, h, RcvSynOff)
            \/ srt_listen_callback_call(t, h, "cb1")
            \/ srt_listen_call(t, h)
            \/ srt_connect_call(t, h, "addrA")
            \/ srt_close_call(t, h)

CloseSteps(t) ==
    \/ LockPoisoned(t)
    \/ srt_setsockflag(t)
    \/ srt_listen_callback(t)
    \/ srt_listen(t)
    \/ srt_connect(t)
    \/ srt_connect_finish(t)
    \/ srt_connect_install(t)
    \/ srt_close(t)
    \/ srt_close_joined(t)

CloseNext ==
    \/ \E t \in Threads : CloseCalls(t)
    \/ \E t \in Threads : CloseSteps(t)
    \/ \E h \in Handles : AcceptLoop(h)
    \/ \E h \in Handles : ConnectTask(h)

CloseSpec == Init /\ [][CloseNext]_vars

(***************************************************************************)
(* Fair scheduling: a call that can take its next step takes it, and the   *)
(* runtime runs every spawned task that can run.                           *)
(***************************************************************************)
ConnectFairSpec ==
    /\ ConnectSpec
    /\ \A t \in Threads : WF_vars(ConnectSteps(t))
    /\ \A h \in Handles : WF_vars(ConnectTask(h))

(***************************************************************************)
(* Vocabulary of the properties.                                           *)
(***************************************************************************)
\* thread t takes the step on which its call of operation op returns
Returns(t, op) ==
    /\ thr[t].op = op
    /\ thr[t].pc \notin {"idle", "panicked"}
    /\ thr'[t].pc = "idle"

\* what a caller sees of the last call of thread t
Outcome(r) == <<r.pc, r.op, r.h, r.ret, r.err>>

\* thread t takes the step on which it starts a call that names a handle (a
\* step that starts a call changes the record of the calling thread alone; a
\* call that repeats the thread's last call and returns at once with the same
\* result leaves the record as it is, and is the step already seen)
Starts(t) ==
    /\ thr[t].pc = "idle"
    /\ ncalls' = ncalls + 1
    /\ Outcome(thr'[t]) # Outcome(thr[t])
    /\ thr'[t].op \notin {"create", "cleanup"}

\* thread t is idle and its last call was op on h
LastCall(t, op, h) ==
    /\ thr[t].pc = "idle"
    /\ thr[t].op = op
    /\ thr[t].h = h

\* the last call of t failed with LAST_ERROR e
FailedWith(t, e) ==
    /\ thr[t].ret = SRT_ERROR
    /\ thr[t].err = e

\* the threads that hold the receiving end of h's hand-off channel
Holders(h) == {t \in Threads : thr[t].incoming = h}

(***************************************************************************)
(* C1  No handle's cell holds InvalidIntermediateState while its mutex is  *)
(* free: every operation that swaps the placeholder in installs a real     *)
(* variant before it returns.  (Stated as claimed; srt_listen breaks it.)  *)
(***************************************************************************)
C1_NoPlaceholderVisible ==
    \A h \in Handles :
        lock[h] = "free" => cell[h].tag # "InvalidIntermediateState"

(***************************************************************************)
(* C2  A listen on an Initialized handle that fails (validation or bind)   *)
(* reports SRT_EINVOP and leaves the cell Initialized with the options,    *)
(* stream identifier and API options it had.  (Stated as claimed.)         *)
(***************************************************************************)
C2_ListenFailureRestores ==
    [][\A t \in Threads :
          (/\ Returns(t, "listen")
           /\ cell[thr[t].h].tag = "Initialized"
           /\ thr'[t].ret = SRT_ERROR)
          => /\ thr'[t].err = "SRT_EINVOP"
             /\ cell'[thr[t].h] = cell[thr[t].h]]_vars

(***************************************************************************)
(* C3  A blocking connect on an Initialized handle keeps the value it      *)
(* moved out of the cell; when the handshake fails the call returns        *)
(* SRT_ERROR with SRT_ENOSERVER and the cell is Initialized with exactly   *)
(* the options, stream identifier and API options it held before the call; *)
(* when it succeeds the cell is Established with the same API options.     *)
(***************************************************************************)
C3_BlockingConnect ==
    [][\A t \in Threads :
          LET h == thr[t].h IN
          /\ (thr[t].op = "connect" /\ thr[t].pc = "lock"
                /\ thr'[t].pc = "connect_wait")
             => (cell[h].tag = "Initialized" /\ thr'[t].sd = cell[h])
          /\ (Returns(t, "connect") /\ thr[t].pc = "connect_wait")
             => IF thr'[t].ret = SRT_SUCCESS
                THEN /\ cell'[h].tag = "Established"
                     /\ cell'[h].api = thr[t].sd.api
                ELSE /\ thr'[t].ret = SRT_ERROR
                     /\ thr'[t].err = "SRT_ENOSERVER"
                     /\ cell'[h] = thr[t].sd]_vars

\* a failed blocking connect left a configured handle as it was
C3_Witness ==
    \E t \in Threads, h \in Handles :
        /\ LastCall(t, "connect", h)
        /\ FailedWith(t, "SRT_ENOSERVER")
        /\ cell[h].tag = "Initialized"
        /\ cell[h].sid = "sidA"
        /\ cell[h].so.local = "addrA"

(***************************************************************************)
(* C4  A non-blocking connect on an Initialized handle returns success     *)
(* with the cell ConnectingNonBlocking while its task is still running;    *)
(* the task writes only over ConnectingNonBlocking (never before it is     *)
(* installed) and writes Established or ConnectFailed; under fair          *)
(* scheduling the cell eventually is Established or ConnectFailed; a       *)
(* ConnectFailed cell stays ConnectFailed, and every bind, listen,         *)
(* connect, accept, send and receive that returns on it fails.             *)
(***************************************************************************)
C4_NonBlockingConnect ==
    /\ [][\A t \in Threads :
            (Returns(t, "connect") /\ thr[t].pc = "connect_spawned")
            => /\ thr'[t].ret = SRT_SUCCESS
               /\ cell'[thr[t].h].tag = "ConnectingNonBlocking"
               /\ task'[thr[t].h].pc = "running"]_vars
    /\ [][\A h \in Handles :
            (task[h].pc = "running" /\ task'[h].pc = "done")
            => /\ cell[h].tag = "ConnectingNonBlocking"
               /\ cell'[h].tag \in {"Established", "ConnectFailed"}]_vars
    /\ \A h \in Handles :
          (task[h].pc = "running")
             ~> (cell[h].tag \in {"Established", "ConnectFailed"})
    /\ [][\A h \in Handles :
            cell[h].tag = "ConnectFailed" => cell'[h].tag = "ConnectFailed"]_vars
    /\ [][\A t \in Threads :
            (/\ thr[t].op \in {"bind", "listen", "connect", "accept", "send", "recv"}
             /\ Returns(t, thr[t].op)
             /\ cell[thr[t].h].tag = "ConnectFailed")
            => thr'[t].ret = SRT_ERROR]_vars

\* the task of a non-blocking connect failed and a later connect was refused
C4_Witness ==
    \E t \in Threads, h \in Handles :
        /\ task[h].pc = "done"
        /\ cell[h].tag = "ConnectFailed"
        /\ h \in sockets
        /\ LastCall(t, "connect", h)
        /\ FailedWith(t, "SRT_ECONNSOCK")

(***************************************************************************)
(* C5  Once srt_close has returned for a handle on which a non-blocking    *)
(* connect was started, the handle is in the registry in no later state,   *)
(* also after the task's late write, and every call started on it          *)
(* afterwards (with well-formed arguments, which are checked before the    *)
(* handle is looked up) returns at once with SRT_EINVSOCK.                 *)
(***************************************************************************)
C5_NoResurrection ==
    [][/\ \A h \in Handles :
            (h \in closed' /\ task'[h].pc # "none") => h \notin sockets'
       /\ \A t \in Threads :
            (/\ Starts(t)
             /\ thr'[t].h \in closed
             /\ task[thr'[t].h].pc # "none")
            => /\ thr'[t].pc = "idle"
               /\ thr'[t].ret = SRT_ERROR
               /\ thr'[t].err = "SRT_EINVSOCK"]_vars

\* the task wrote its result after the close, and a later send found no handle
C5_Witness ==
    \E t \in Threads, h \in Handles :
        /\ task[h].pc = "done"
        /\ task[h].late
        /\ h \in closed
        /\ h \notin sockets
        /\ cell[h].tag \in {"Established", "ConnectFailed"}
        /\ LastCall(t, "send", h)
        /\ FailedWith(t, "SRT_EINVSOCK")

(***************************************************************************)
(* C6  Whenever an accept call that took the receiving end of a Listening  *)
(* handle returns, with a new handle or with would-block, and the handle   *)
(* is still Listening, the receiving end is back in the cell.  (Stated as  *)
(* claimed; the would-block return of srt_accept breaks it.)               *)
(***************************************************************************)
C6_ReceiverPutBack ==
    [][\A t \in Threads :
          (/\ Returns(t, "accept")
           /\ thr[t].pc \in {"accept_wait", "accept_putback"}
           /\ \/ thr'[t].ret # SRT_ERROR
              \/ thr'[t].err = "SRT_EASYNCRCV"
           /\ cell'[thr[t].h].tag = "Listening")
          => cell'[thr[t].h].rx = "Some"]_vars

(***************************************************************************)
(* C7  After an accept reported would-block on a handle that is still      *)
(* Listening and that nobody has started to close, the accept loop has not *)
(* ended and the hand-off channel still has its receiving end, so that a   *)
(* session the loop publishes reaches a later accept.  (Stated as claimed; *)
(* the receiver dropped by the would-block return breaks it.)              *)
(***************************************************************************)
C7_WouldBlockIsRetry ==
    \A t \in Threads, h \in Handles :
        (/\ LastCall(t, "accept", h)
         /\ FailedWith(t, "SRT_EASYNCRCV")
         /\ cell[h].tag = "Listening"
         /\ ~loop[h].closing)
        => /\ loop[h].pc # "done"
           /\ ~chan[h].rx_dropped

(***************************************************************************)
(* C8  At most one accept call holds the receiving end of a handle's       *)
(* hand-off channel, and none does while it is in the cell; an accept that *)
(* finds it taken returns at once with SRT_EINVOP; an accept obtains it    *)
(* only from the cell; no published session is returned twice.             *)
(***************************************************************************)
C8_OneAcceptor ==
    /\ [](\A h \in Handles :
            /\ Cardinality(Holders(h)) <= 1
            /\ (cell[h].tag = "Listening" /\ cell[h].rx = "Some")
                  => Holders(h) = {}
            /\ delivered[h] <= 1)
    /\ [][\A t \in Threads :
            LET h == thr[t].h IN
            (thr[t].op = "accept" /\ thr[t].pc = "lock" /\ thr'[t].pc # "lock")
            => IF Holders(h) # {} /\ cell[h].tag = "Listening"
               THEN /\ thr'[t].pc = "idle"
                    /\ thr'[t].ret = SRT_ERROR
                    /\ thr'[t].err = "SRT_EINVOP"
               ELSE thr'[t].pc = "accept_wait"
                       => (cell[h].tag = "Listening" /\ cell[h].rx = "Some")]_vars

\* one accept waits with the receiver while the other was turned away
C8_Witness ==
    \E t \in Threads, u \in Threads, h \in Handles :
        /\ t # u
        /\ thr[t].pc = "accept_wait"
        /\ thr[t].incoming = h
        /\ LastCall(u, "accept", h)
        /\ FailedWith(u, "SRT_EINVOP")
        /\ cell[h].tag = "Listening"

(***************************************************************************)
(* C9  A close of a Listening handle that waits for the accept loop is     *)
(* never stuck: the loop has ended, so that the join returns, or the loop  *)
(* can take its next step.  (The finite form of "always eventually         *)
(* returns", stated as claimed; a loop that has to lock the handle the     *)
(* closing thread holds breaks it.)                                        *)
(***************************************************************************)
C9_CloseListeningReturns ==
    \A t \in Threads :
        thr[t].pc = "close_wait"
        => \/ loop[thr[t].h].pc \in {"done", "panicked"}
           \/ ENABLED AcceptLoop(thr[t].h)

(***************************************************************************)
(* C10  When srt_close returns for a handle it found in the registry, the  *)
(* handle is not in the registry, whatever variant the cell held and       *)
(* whatever close_and_finish returned; an Established or Listening cell is *)
(* Closed, any other cell is as it was, and a failure of close_and_finish  *)
(* shows only as SRT_ERROR with SRT_EINVOP.                                *)
(***************************************************************************)
C10_CloseRemoves ==
    [][\A t \in Threads :
          LET h == thr[t].h IN
          Returns(t, "close")
          => /\ h \notin sockets'
             /\ cell'[h] = IF cell[h].tag \in {"Established", "Listening"}
                           THEN Closed ELSE cell[h]
             /\ \/ thr'[t].ret = SRT_SUCCESS
                \/ /\ thr'[t].ret = SRT_ERROR
                   /\ thr'[t].err = "SRT_EINVOP"
                   /\ cell[h].tag = "Established"]_vars

\* a close whose close_and_finish failed still removed the handle
C10_Witness ==
    \E t \in Threads, h \in Handles :
        /\ LastCall(t, "close", h)
        /\ FailedWith(t, "SRT_EINVOP")
        /\ cell[h] = Closed
        /\ h \in closed
        /\ h \notin sockets

(***************************************************************************)
(* C11  A close of a handle that is still as srt_create_socket made it     *)
(* returns SRT_SUCCESS and removes it; a handle srt_close has returned for *)
(* is never in the registry again; and every call (with well-formed        *)
(* arguments) that names a handle not in the registry, a close included,   *)
(* returns at once with SRT_EINVSOCK and changes neither the registry nor  *)
(* any cell.                                                               *)
(***************************************************************************)
C11_ClosedIsInvalid ==
    /\ [](closed \cap sockets = {})
    /\ [][\A t \in Threads :
            LET h == thr'[t].h IN
            /\ (/\ Returns(t, "close")
                /\ cell[thr[t].h] =
                      Initialized(DefaultSocketOptions, None, DefaultApiOptions))
               => (thr'[t].ret = SRT_SUCCESS /\ thr[t].h \notin sockets')
            /\ (Starts(t) /\ h \notin sockets)
               => /\ thr'[t].pc = "idle"
                  /\ thr'[t].ret = SRT_ERROR
                  /\ thr'[t].err = "SRT_EINVSOCK"
                  /\ sockets' = sockets
                  /\ cell' = cell]_vars

\* a handle was created and closed, and a later get-option found no handle
C11_Witness ==
    \E t \in Threads, h \in Handles :
        /\ h \in closed
        /\ cell[h] = Initialized(DefaultSocketOptions, None, DefaultApiOptions)
        /\ LastCall(t, "getsockflag", h)
        /\ FailedWith(t, "SRT_EINVSOCK")

(***************************************************************************)
(* C12  An operation that takes the mutex of a handle whose cell srt_close *)
(* has set to Closed (it looked the handle up before the close removed it) *)
(* returns SRT_ERROR with SRT_EINVSOCK and leaves the cell Closed; a       *)
(* second close in particular does not return SRT_SUCCESS.  (Stated as     *)
(* claimed; each operation matches Closed in its own fall-through arm.)    *)
(***************************************************************************)
C12_ClosedCellIsInvalid ==
    [][\A t \in Threads :
          LET h == thr[t].h IN
          (/\ thr[t].pc = "lock"
           /\ thr'[t].pc # "lock"
           /\ cell[h] = Closed)
          => /\ thr'[t].pc = "idle"
             /\ thr'[t].ret = SRT_ERROR
             /\ thr'[t].err = "SRT_EINVSOCK"
             /\ cell'[h] = Closed]_vars

(***************************************************************************)
(* C13  Every allocation, by srt_create_socket on any thread or by an      *)
(* accept loop, hands out the value of the counter and advances it by one; *)
(* the counter never goes back, also across srt_close and srt_cleanup; so  *)
(* every handle value in use anywhere is below the counter, every          *)
(* allocation returns a value above all values returned before, and a      *)
(* value enters the registry once.                                         *)
(***************************************************************************)
C13_StrictlyIncreasing ==
    /\ [](/\ sockets \subseteq Allocated
          /\ closed \subseteq Allocated
          /\ \A t \in Threads :
                thr[t].op = "create" => thr[t].ret \in Allocated
          /\ \A h \in Handles :
                /\ loop[h].new_sock \in Allocated \cup {SRT_INVALID_SOCK}
                /\ \A i \in 1 .. Len(chan[h].q) : chan[h].q[i] \in Allocated)
    /\ [][/\ next_sockid' >= next_sockid
          /\ (sockets' \ sockets) \subseteq {next_sockid}
          /\ (sockets' \ sockets) # {} => next_sockid' = next_sockid + 1
          /\ \A t \in Threads :
                (thr'[t].op = "create" /\ Outcome(thr'[t]) # Outcome(thr[t]))
                => /\ thr'[t].ret = next_sockid
                   /\ next_sockid' = next_sockid + 1
                   /\ thr'[t].ret \in sockets' \ sockets
          /\ \A h \in Handles :
                (loop'[h].pc = "getopts" /\ loop[h].pc # "getopts")
                => /\ loop'[h].new_sock = next_sockid
                   /\ next_sockid' = next_sockid + 1
                   /\ loop'[h].new_sock \in sockets' \ sockets]_vars

\* after an accept loop allocated a handle and srt_cleanup emptied the
\* registry, a create returned a value above both earlier ones
C13_Witness ==
    \E t \in Threads, h \in Handles :
        /\ LastCall(t, "create", h)
        /\ thr[t].ret = h
        /\ sockets = {h}
        /\ closed = {}
        /\ \E l \in Handles : loop[l].new_sock \in FirstSockId .. (h - 1)

(***************************************************************************)
(* C14  srt_bind on an Initialized handle returns SRT_SUCCESS and changes  *)
(* only the local address of the pre-connection options: the cell stays    *)
(* Initialized, with every other option, the stream identifier and the API *)
(* options as they were; on a cell of any other variant it returns         *)
(* SRT_ERROR with SRT_ECONNSOCK and leaves the cell as it was.  No other   *)
(* handle's cell changes.                                                  *)
(***************************************************************************)
C14_BindFrame ==
    [][\A t \in Threads :
          LET h == thr[t].h IN
          Returns(t, "bind")
          => /\ \A g \in Handles \ {h} : cell'[g] = cell[g]
             /\ sockets' = sockets
             /\ IF cell[h].tag = "Initialized"
                THEN /\ thr'[t].ret = SRT_SUCCESS
                     /\ cell'[h].tag = "Initialized"
                     /\ cell'[h].so.local = thr[t].arg
                     /\ \A f \in DOMAIN cell[h].so \ {"local"} :
                           cell'[h].so[f] = cell[h].so[f]
                     /\ cell'[h].sid = cell[h].sid
                     /\ cell'[h].api = cell[h].api
                ELSE /\ thr'[t].ret = SRT_ERROR
                     /\ thr'[t].err = "SRT_ECONNSOCK"
                     /\ cell'[h] = cell[h]]_vars

\* a bind succeeded on a handle whose stream id and blocking flag had been set
C14_Witness ==
    \E t \in Threads, h \in Handles :
        /\ LastCall(t, "bind", h)
        /\ thr[t].ret = SRT_SUCCESS
        /\ cell[h].tag = "Initialized"
        /\ cell[h].so.local = "addrA"
        /\ cell[h].sid = "sidA"
        /\ ~cell[h].api.rcv_syn

(***************************************************************************)
(* C15  srt_listen and srt_connect on a cell that is not Initialized       *)
(* return SRT_ERROR with SRT_ECONNSOCK, leave every cell exactly as it     *)
(* was, and spawn neither an accept loop nor a connect task.               *)
(***************************************************************************)
C15_NotInitializedRefused ==
    [][\A t \in Threads :
          LET h == thr[t].h IN
          (/\ thr[t].op \in {"listen", "connect"}
           /\ thr[t].pc = "lock"
           /\ thr'[t].pc \notin {"lock", "panicked"}
           /\ cell[h].tag # "Initialized")
          => /\ thr'[t].pc = "idle"
             /\ thr'[t].ret = SRT_ERROR
             /\ thr'[t].err = "SRT_ECONNSOCK"
             /\ cell' = cell
             /\ loop' = loop
             /\ task' = task
             /\ chan' = chan
             /\ sockets' = sockets]_vars

\* a listen that waited at the mutex while the handle was closed found the
\* cell Closed, and was refused
C15_Witness ==
    \E t \in Threads, h \in Handles :
        /\ LastCall(t, "listen", h)
        /\ FailedWith(t, "SRT_ECONNSOCK")
        /\ cell[h] = Closed

(***************************************************************************)
(* C16  srt_accept on a cell that is not Listening returns SRT_ERROR with  *)
(* SRT_ENOLISTEN, and srt_sendmsg2 and srt_recv on a cell that is not      *)
(* Established return SRT_ERROR with SRT_ENOCONN; the call returns on the  *)
(* step on which it took the mutex (it waits for nothing) and changes no   *)
(* cell, no channel and not the registry.                                  *)
(***************************************************************************)
C16_WrongStateRefused ==
    [][\A t \in Threads :
          LET h == thr[t].h IN
          (/\ thr[t].pc = "lock"
           /\ thr'[t].pc # "lock"
           /\ lock[h] # "poisoned"
           /\ \/ thr[t].op = "accept" /\ cell[h].tag # "Listening"
              \/ thr[t].op \in {"send", "recv"} /\ cell[h].tag # "Established")
          => /\ thr'[t].pc = "idle"
             /\ thr'[t].ret = SRT_ERROR
             /\ thr'[t].err = IF thr[t].op = "accept"
                              THEN "SRT_ENOLISTEN" ELSE "SRT_ENOCONN"
             /\ cell' = cell
             /\ chan' = chan
             /\ lock' = lock
             /\ sockets' = sockets]_vars

\* a receive on a handle whose connect was still in flight was refused, and
\* so was the other thread's accept on a handle that does not listen
C16_Witness ==
    \E t \in Threads, u \in Threads, h \in Handles, g \in Handles :
        /\ t # u
        /\ LastCall(t, "recv", h)
        /\ FailedWith(t, "SRT_ENOCONN")
        /\ cell[h].tag = "ConnectingNonBlocking"
        /\ LastCall(u, "accept", g)
        /\ FailedWith(u, "SRT_ENOLISTEN")

(***************************************************************************)
(* C17  srt_sendmsg2 on an Established cell follows the send-blocking flag *)
(* of the cell: with snd_syn set the call does not come back with a        *)
(* failure because the session did not take the payload (it waits), and    *)
(* with snd_syn cleared a payload the session did not take is reported as  *)
(* would-block (SRT_EASYNCSND).                                            *)
(***************************************************************************)
C17_SendFollowsSndSyn ==
    [][\A t \in Threads :
          LET h == thr[t].h IN
          (/\ thr[t].op = "send"
           /\ thr[t].pc \notin {"idle", "lock", "panicked"}
           /\ thr'[t].pc = "idle"
           /\ cell[h].tag = "Established"
           /\ thr'[t].ret = SRT_ERROR)
          => /\ ~cell[h].api.snd_syn
             /\ thr'[t].err = "SRT_EASYNCSND"]_vars

(***************************************************************************)
(* C18  When srt_recv on an Established cell obtains a unit of length u    *)
(* for a caller buffer of length b, it returns min(b, u), the first        *)
(* min(b, u) bytes of the buffer are the first min(b, u) bytes of the      *)
(* unit, the bytes of the buffer after them are what they were, and the    *)
(* call does not fail (also when b < u): the error slot is not written.    *)
(***************************************************************************)
C18_ReceiveCopiesMin ==
    [][\A t \in Threads :
          LET bytes == thr[t].out
              recvd == thr[t].recvd
              b == Len(bytes)
              u == Len(recvd)
              m == IF b < u THEN b ELSE u
          IN  (thr[t].pc = "recv_copy" /\ thr'[t].pc # "recv_copy")
              => /\ cell[thr[t].h].tag = "Established"
                 /\ thr'[t].pc = "idle"
                 /\ thr'[t].ret = m
                 /\ thr'[t].ret # SRT_ERROR
                 /\ thr'[t].err = thr[t].err
                 /\ Len(thr'[t].out) = b
                 /\ \A i \in 1..b :
                      thr'[t].out[i] = IF i <= m THEN recvd[i] ELSE bytes[i]]_vars

\* one receive has returned 1 with a two-byte buffer whose second byte is the
\* caller's, and another has a two-byte unit for a one-byte buffer
C18_Witness ==
    \E t \in Threads, w \in Threads, h \in Handles :
        /\ LastCall(w, "recv", h)
        /\ thr[w].ret = 1
        /\ Len(thr[w].out) = 2
        /\ thr[w].out[1] \in UnitBytes
        /\ thr[w].out[2] = CallerBuffer(2)[2]
        /\ thr[t].pc = "recv_copy"
        /\ Len(thr[t].out) < Len(thr[t].recvd)

(***************************************************************************)
(* C19  When the session rejects the payload srt_sendmsg2 hands it, the    *)
(* call returns SRT_ERROR with SRT_ELARGEMSG; when the session takes it,   *)
(* the call returns the payload length and leaves the error slot alone.    *)
(* In both cases the cell is the Established cell it was, with the same    *)
(* session, from the step that took the mutex to the return.               *)
(***************************************************************************)
C19_SendRejected ==
    [][\A t \in Threads :
          LET h == thr[t].h IN
          /\ (thr[t].op = "send" /\ thr[t].pc = "lock"
              /\ thr'[t].pc \in {"send_taken", "send_rejected"})
             => /\ cell[h].tag = "Established"
                /\ cell' = cell
          /\ (thr[t].pc = "send_rejected" /\ thr'[t].pc # "send_rejected")
             => /\ thr'[t].pc = "idle"
                /\ thr'[t].ret = SRT_ERROR
                /\ thr'[t].err = "SRT_ELARGEMSG"
                /\ cell[h].tag = "Established"
                /\ cell' = cell
          /\ (thr[t].pc = "send_taken" /\ thr'[t].pc # "send_taken")
             => /\ thr'[t].pc = "idle"
                /\ thr'[t].ret = thr[t].arg
                /\ thr'[t].err = thr[t].err
                /\ cell[h].tag = "Established"
                /\ cell' = cell]_vars

\* a send was rejected and reported, and the handle is still connected
C19_Witness ==
    \E t \in Threads, h \in Handles :
        /\ LastCall(t, "send", h)
        /\ FailedWith(t, "SRT_ELARGEMSG")
        /\ cell[h].tag = "Established"
        /\ h \in sockets

(***************************************************************************)
(* C20  On an Initialized cell a successful srt_setsockflag leaves the     *)
(* cell such that srt_getsockflag of the same option reads the value that  *)
(* was set: for SRTO_RCVSYN and SRTO_SNDSYN (0 for false, 1 for any other  *)
(* value), SRTO_CONNTIMEO, SRTO_RCVLATENCY and SRTO_PEERLATENCY (the       *)
(* milliseconds), SRTO_MININPUTBW (the 64-bit value) and SRTO_STREAMID     *)
(* (the string); and a successful srt_getsockflag writes what it reads     *)
(* from the cell through the caller's pointer and leaves the cell alone.   *)
(***************************************************************************)
C20_SetGetRoundTrip ==
    [][\A t \in Threads :
          LET h == thr[t].h
              a == thr[t].arg
          IN  /\ (/\ thr[t].op = "setsockflag"
                  /\ thr[t].pc = "lock"
                  /\ thr'[t].pc = "idle"
                  /\ thr'[t].ret = SRT_SUCCESS
                  /\ cell[h].tag = "Initialized"
                  /\ a.opt \in {"SRTO_RCVSYN", "SRTO_SNDSYN", "SRTO_MININPUTBW",
                                "SRTO_STREAMID"} \cup MillisOptions)
                 => LET got == get_option(cell'[h], a.opt) IN
                    /\ cell'[h].tag = "Initialized"
                    /\ a.opt \in {"SRTO_RCVSYN", "SRTO_SNDSYN"}
                       => got.kind = "Bool" /\ got.int = (IF a.int = 0 THEN 0 ELSE 1)
                    /\ a.opt \in MillisOptions
                       => got.kind = "Int" /\ got.int = a.int
                    /\ a.opt = "SRTO_MININPUTBW"
                       => got.kind = "Int64" /\ got.i64 = a.i64
                    /\ a.opt = "SRTO_STREAMID"
                       => got.kind = "Str" /\ got.str = a.str
              /\ (/\ thr[t].op = "getsockflag"
                  /\ thr[t].pc = "lock"
                  /\ thr'[t].pc = "idle"
                  /\ thr'[t].ret = SRT_SUCCESS)
                 => LET val == get_option(cell[h], a.opt) IN
                    /\ cell' = cell
                    /\ thr'[t].out.written
                    /\ val.kind \in {"Bool", "Int"} => thr'[t].out.int = val.int
                    /\ val.kind = "Int64" => thr'[t].out.i64 = val.i64
                    /\ val.kind = "Str" => thr'[t].out.str = val.str]_vars

\* a get has read back the -1 that was set as the minimum input bandwidth
C20_Witness ==
    \E t \in Threads, h \in Handles :
        /\ LastCall(t, "getsockflag", h)
        /\ thr[t].ret = SRT_SUCCESS
        /\ thr[t].out.written
        /\ thr[t].out.i64 = <<65535, 65535, 65535, -1>>
        /\ cell[h].tag = "Initialized"
        /\ cell[h].so.bandwidth.mode = "Estimated"

(***************************************************************************)
(* C21  srt_setsockflag of a fixed-width option (the booleans SRTO_RCVSYN, *)
(* SRTO_SNDSYN, SRTO_TSBPDMODE and SRTO_SENDER, the 32-bit millisecond     *)
(* options, the 64-bit SRTO_MININPUTBW) returns SRT_SUCCESS only when      *)
(* optlen is the width of the kind (4, or 8 for the 64-bit option) and a   *)
(* millisecond value is not negative; a call that returns otherwise        *)
(* reports SRT_EINVPARAM and leaves the cell as it was.                    *)
(***************************************************************************)
C21_FixedWidthChecked ==
    [][\A t \in Threads :
          LET h == thr[t].h
              a == thr[t].arg
          IN  (/\ thr[t].op = "setsockflag"
               /\ thr[t].pc = "lock"
               /\ thr'[t].pc = "idle"
               /\ a.opt \in {"SRTO_RCVSYN", "SRTO_SNDSYN", "SRTO_TSBPDMODE",
                             "SRTO_SENDER", "SRTO_MININPUTBW"} \cup MillisOptions)
              => IF thr'[t].ret = SRT_SUCCESS
                 THEN /\ a.len = (IF a.opt = "SRTO_MININPUTBW" THEN SizeOfI64
                                  ELSE SizeOfInt)
                      /\ a.opt \in MillisOptions => a.int >= 0
                 ELSE /\ thr'[t].err = "SRT_EINVPARAM"
                      /\ cell' = cell]_vars

(***************************************************************************)
(* C22  srt_getsockflag, once it has the value of the option, returns      *)
(* SRT_SUCCESS and writes the value exactly when the capacity in *optlen   *)
(* is at least the size of the value (4 for a boolean or a 32-bit value, 8 *)
(* for a 64-bit value, the length plus one for a string); otherwise it     *)
(* reports SRT_EINVPARAM and writes neither the buffer nor *optlen.  On    *)
(* success *optlen is the size used (the length of a string, which is      *)
(* followed by a zero byte).                                               *)
(***************************************************************************)
C22_CapacityDecides ==
    [][\A t \in Threads :
          LET h == thr[t].h
              a == thr[t].arg
              val == get_option(cell[h], a.opt)
              size == CASE val.kind \in {"Bool", "Int"} -> SizeOfInt
                        [] val.kind = "Int64" -> SizeOfI64
                        [] val.kind = "Str" -> StrLen(val.str) + 1
          IN  (/\ thr[t].op = "getsockflag"
               /\ thr[t].pc = "lock"
               /\ thr'[t].pc = "idle"
               /\ val.kind \in {"Bool", "Int", "Int64", "Str"})
              => IF a.optlen >= size
                 THEN /\ thr'[t].ret = SRT_SUCCESS
                      /\ thr'[t].out.written
                      /\ val.kind \in {"Bool", "Int"}
                         => thr'[t].out.int = val.int /\ thr'[t].out.optlen = SizeOfInt
                      /\ val.kind = "Int64"
                         => thr'[t].out.i64 = val.i64 /\ thr'[t].out.optlen = SizeOfI64
                      /\ val.kind = "Str"
                         => /\ thr'[t].out.str = val.str
                            /\ thr'[t].out.nul
                            /\ thr'[t].out.optlen = StrLen(val.str)
                 ELSE /\ thr'[t].ret = SRT_ERROR
                      /\ thr'[t].err = "SRT_EINVPARAM"
                      /\ thr'[t].out = thr[t].out]_vars

(***************************************************************************)
(* C23  srt_setsockflag of an option that has no arm for the variant the   *)
(* cell holds ends in the unimplemented fault and does not return; and a   *)
(* call that returns SRT_SUCCESS has stored the supplied value in the cell *)
(* or was given a value the arm accepts as it is (any value of             *)
(* SRTO_SENDER, true for SRTO_TSBPDMODE).                                  *)
(***************************************************************************)
C23_NoSilentSuccess ==
    [][\A t \in Threads :
          LET h == thr[t].h
              a == thr[t].arg
              sd == cell[h]
              hasArm ==
                  IF sd.tag = "Accepting"
                  THEN a.opt \in {"SRTO_PASSPHRASE", "SRTO_RCVLATENCY"}
                  ELSE \/ a.opt \in {"SRTO_STREAMID", "SRTO_SENDER", "SRTO_TSBPDMODE"}
                       \/ a.opt \in {"SRTO_RCVSYN", "SRTO_SNDSYN"} /\ has_api_opts(sd)
                       \/ /\ a.opt \in {"SRTO_PASSPHRASE", "SRTO_MININPUTBW"}
                                       \cup MillisOptions
                          /\ has_sock_opts(sd)
              stored ==
                  CASE a.opt = "SRTO_PASSPHRASE" ->
                          IF sd.tag = "Accepting" THEN cell'[h].ks = a.str
                          ELSE cell'[h].so.passphrase = a.str
                    [] a.opt = "SRTO_STREAMID" -> cell'[h].sid = a.str
                    [] a.opt = "SRTO_RCVSYN" -> cell'[h].api.rcv_syn = (a.int # 0)
                    [] a.opt = "SRTO_SNDSYN" -> cell'[h].api.snd_syn = (a.int # 0)
                    [] a.opt = "SRTO_CONNTIMEO" ->
                          cell'[h].so.timeout = from_millis(a.int)
                    [] a.opt = "SRTO_RCVLATENCY" ->
                          cell'[h].so.latency = from_millis(a.int)
                    [] a.opt = "SRTO_PEERLATENCY" ->
                          cell'[h].so.peer_latency = from_millis(a.int)
                    [] a.opt = "SRTO_MININPUTBW" ->
                          cell'[h].so.bandwidth.rate = as_u64(a.i64)
                    [] OTHER -> FALSE
              accepted ==
                  \/ a.opt = "SRTO_SENDER"
                  \/ a.opt = "SRTO_TSBPDMODE" /\ a.int # 0
          IN  (/\ thr[t].op = "setsockflag"
               /\ thr[t].pc = "lock"
               /\ thr'[t].pc # "lock"
               /\ lock[h] # "poisoned")
              => /\ ~hasArm => thr'[t].pc = "panicked" /\ cell' = cell
                 /\ (thr'[t].pc = "idle" /\ thr'[t].ret = SRT_SUCCESS)
                    => stored \/ accepted]_vars

(***************************************************************************)
(* C24  SRTO_STREAMID can be set only on an Initialized cell: on a cell of *)
(* any other variant srt_setsockflag returns SRT_ERROR with SRT_ECONNSOCK  *)
(* and changes nothing.  srt_getsockflag of SRTO_STREAMID with room for    *)
(* the string succeeds on an Initialized and on an Established cell and    *)
(* returns SRT_ERROR on a cell of any other variant.                       *)
(***************************************************************************)
C24_StreamIdPhases ==
    [][\A t \in Threads :
          LET h == thr[t].h
              a == thr[t].arg
          IN  /\ (/\ thr[t].op = "setsockflag"
                  /\ thr[t].pc = "lock"
                  /\ thr'[t].pc # "lock"
                  /\ lock[h] # "poisoned"
                  /\ a.opt = "SRTO_STREAMID"
                  /\ cell[h].tag # "Initialized")
                 => /\ thr'[t].pc = "idle"
                    /\ thr'[t].ret = SRT_ERROR
                    /\ thr'[t].err = "SRT_ECONNSOCK"
                    /\ cell' = cell
                    /\ lock' = lock
              /\ (/\ thr[t].op = "getsockflag"
                  /\ thr[t].pc = "lock"
                  /\ thr'[t].pc # "lock"
                  /\ lock[h] # "poisoned"
                  /\ a.opt = "SRTO_STREAMID"
                  /\ a.optlen > StrLen("sidA"))
                 => /\ thr'[t].pc = "idle"
                    /\ thr'[t].ret = (IF cell[h].tag \in {"Initialized", "Established"}
                                      THEN SRT_SUCCESS ELSE SRT_ERROR)]_vars

(***************************************************************************)
(* C25  LAST_ERROR and LAST_ERROR_STR belong to the calling thread.  On    *)
(* the step on which a call of thread t returns SRT_ERROR, both the code   *)
(* and the message of t's slot are those of that failure (the message is   *)
(* the name of the code or the text formatted for it); on the step on      *)
(* which a call of t returns anything else, t's slot is unchanged; and on  *)
(* every other step (a step of another thread, of a connect task, or a     *)
(* step of t that does not return) t's slot is unchanged.                  *)
(***************************************************************************)
C25_ErrorSlotIsThreadLocal ==
    [][\A t \in Threads :
          LET returns ==
                  /\ thr'[t].pc = "idle"
                  /\ \/ thr[t].pc \notin {"idle", "panicked"}
                     \/ thr[t].pc = "idle" /\ Outcome(thr'[t]) # Outcome(thr[t])
              formatted ==
                  {<<"SRT_EINVPARAM", "Invalid socket address">>,
                   <<"SRT_EINVOP", "Invalid options: ..">>,
                   <<"SRT_EINVOP", "Failed to listen on socket: ..">>,
                   <<"SRT_ENOSERVER", "Failed to connect: ..">>,
                   <<"SRT_EINVOP",
                     "accept can only be called from one thread at a time">>,
                   <<"SRT_ECONNLOST", "receive error: ..">>,
                   <<"SRT_EINVOP", "Failed to close socket: ..">>}
          IN  IF returns /\ thr'[t].ret = SRT_ERROR
              THEN /\ thr'[t].err \in Errnos \ {"SRT_SUCCESS"}
                   /\ \/ thr'[t].msg = thr'[t].err
                      \/ <<thr'[t].err, thr'[t].msg>> \in formatted
              ELSE /\ thr'[t].err = thr[t].err
                   /\ thr'[t].msg = thr[t].msg]_vars

\* one thread's last call failed and its slot holds that failure, while the
\* other thread, whose calls all succeeded, still has the initial slot
C25_Witness ==
    \E t \in Threads, u \in Threads, h \in Handles :
        /\ LastCall(t, "connect", h)
        /\ FailedWith(t, "SRT_ENOSERVER")
        /\ thr[t].msg = "Failed to connect: .."
        /\ thr[u].op = "close"
        /\ thr[u].pc = "idle"
        /\ thr[u].ret = SRT_SUCCESS
        /\ thr[u].err = "SRT_SUCCESS"
        /\ thr[u].msg = NoErrorMessage

(***************************************************************************)
(* C26  For each request the accept loop uses the callback installed on    *)
(* the listening handle when that request is processed: the options it     *)
(* copies are the cell's current ones and it calls a callback exactly when *)
(* one is installed then.  The request is accepted exactly when no         *)
(* callback is installed or the callback returned zero without a fault.    *)
(* On reject the prospective handle leaves the registry, nothing is        *)
(* published for it and the loop goes on to the next request.              *)
(***************************************************************************)
C26_CallbackDecides ==
    [][\A h \in Handles :
          /\ (loop[h].pc = "getopts" /\ loop'[h].pc \in {"callback", "takekeys"})
                => /\ loop'[h].opts = cell[h].api
                   /\ (loop'[h].pc = "callback") <=> (cell[h].api.listen_cb # None)
          /\ (loop[h].pc = "callback" /\ loop'[h].pc # "callback")
                => /\ loop'[h].pc \in {"takekeys", "reject"}
                   /\ (loop'[h].pc = "takekeys")
                         <=> (loop'[h].exception_thrown = 0 /\ loop'[h].ret = 0)
          /\ (loop[h].pc = "reject" /\ loop'[h].pc # "reject")
                => /\ loop'[h].pc = "next"
                   /\ loop[h].new_sock \notin sockets'
                   /\ chan'[h] = chan[h]
                   /\ \A i \in 1 .. Len(chan[h].q) : chan[h].q[i] # loop[h].new_sock]_vars

(***************************************************************************)
(* C27  While the accept callback of listener h runs, the loop holds       *)
(* neither the mutex of h nor the mutex of the prospective handle nor the  *)
(* lock of the registry, so a set-option, get-option or listen-callback    *)
(* call that waits for one of the two mutexes at that moment, with no      *)
(* caller thread holding it and no panic having poisoned it, can take its  *)
(* step.                                                                   *)
(***************************************************************************)
C27_CallbackRunsUnlocked ==
    \A h \in Handles :
        loop[h].pc = "callback" =>
            /\ lock[h] # "loop"
            /\ lock[loop[h].new_sock] # "loop"
            /\ lock[SOCKETS] # "loop"
            /\ \A t \in Threads :
                  ( /\ thr[t].pc = "lock"
                    /\ thr[t].op \in {"setsockflag", "getsockflag", "listen_callback"}
                    /\ thr[t].h \in {h, loop[h].new_sock}
                    /\ lock[thr[t].h] \notin Threads \cup {"poisoned"} )
                  => ENABLED (\/ srt_setsockflag(t)
                              \/ srt_getsockflag(t)
                              \/ srt_listen_callback(t))

\* the callback of h runs while one call waits at the mutex of the
\* prospective handle and another at the mutex of h
C27_Witness ==
    \E h \in Handles, t \in Threads, u \in Threads :
        /\ loop[h].pc = "callback"
        /\ thr[t].pc = "lock"
        /\ thr[t].op = "setsockflag"
        /\ thr[t].h = loop[h].new_sock
        /\ thr[u].pc = "lock"
        /\ thr[u].op = "listen_callback"
        /\ thr[u].h = h

(***************************************************************************)
(* C28  The accept loop installs Established before it publishes: on the   *)
(* step that puts a handle on the hand-off channel the handle is in the    *)
(* registry and its cell is Established; the key-exchange parameters       *)
(* staged on the Accepting placeholder are moved out of the cell on the    *)
(* one step that leads to the handshake, and the handshake that follows    *)
(* uses them; and a publish that finds the receiving end dropped ends the  *)
(* loop.  (Stated as claimed; a close of the prospective handle that       *)
(* overtakes the loop breaks the first part.)                              *)
(***************************************************************************)
C28_EstablishedBeforePublish ==
    [][\A h \in Handles :
          /\ (loop[h].pc = "publish" /\ loop'[h].pc # "publish")
                => IF chan[h].rx_dropped
                   THEN /\ loop'[h].pc = "done"
                        /\ chan'[h].q = chan[h].q
                   ELSE /\ loop'[h].pc = "next"
                        /\ chan'[h].q = Append(chan[h].q, loop[h].new_sock)
                        /\ loop[h].new_sock \in sockets
                        /\ cell[loop[h].new_sock].tag = "Established"
          /\ (loop[h].pc # "publish" /\ chan[h].tx_dropped = chan'[h].tx_dropped)
                => chan'[h].q = chan[h].q \/ Len(chan'[h].q) < Len(chan[h].q)
                      \/ chan'[h].q = <<>>
          /\ (loop[h].pc = "takekeys" /\ loop'[h].pc = "handshake")
                => /\ loop'[h].ks = cell[loop[h].new_sock].ks
                   /\ cell'[loop[h].new_sock].tag = "Accepting"
                   /\ cell'[loop[h].new_sock].ks = None
          /\ (loop[h].pc = "handshake" /\ loop'[h].pc = "publish")
                => /\ loop'[h].ks = loop[h].ks
                   /\ cell'[loop[h].new_sock].tag = "Established"]_vars

(***************************************************************************)
(* C29  The lock of the registry is held only inside the step that reads   *)
(* or changes the table: no caller thread and no accept loop holds it      *)
(* while it waits for a cell's mutex, waits for a task or does transport   *)
(* work (every position of the model other than idle is one of these).     *)
(* Hence, whatever another thread is doing on another handle, a thread     *)
(* that may start a call can create a handle and look one up, and a close  *)
(* that has its own cell's mutex free can take its step and remove.        *)
(***************************************************************************)
C29_RegistryLockIsShort ==
    /\ \A t \in Threads : lock[SOCKETS] # t
    /\ lock[SOCKETS] # "loop"
    /\ \A t \in Threads :
          (thr[t].pc = "idle" /\ ncalls < MaxCalls) =>
              /\ next_sockid <= MaxSock => ENABLED srt_create_socket(t)
              /\ \A h \in Allocated : ENABLED srt_close_call(t, h)
    /\ \A t \in Threads :
          (thr[t].pc = "lock" /\ thr[t].op = "close" /\ lock[thr[t].h] = "free")
              => ENABLED srt_close(t)

\* one thread waits for the accept loop with the listener's mutex held while
\* the other has looked up another handle and is about to close it
C29_Witness ==
    \E t \in Threads, u \in Threads :
        /\ thr[t].pc = "close_wait"
        /\ lock[thr[t].h] = t
        /\ thr[u].pc = "lock"
        /\ thr[u].op = "close"
        /\ thr[u].h # thr[t].h
        /\ lock[thr[u].h] = "free"

(***************************************************************************)
(* C30  When the accept loop has finished with a request (it goes back to  *)
(* wait for the next one after the callback rejected, the handshake failed *)
(* or the handle was published), the handle it allocated for that request  *)
(* is not in the registry in Accepting state.  (Stated as claimed; the     *)
(* failure arm of the handshake breaks it.)                                *)
(***************************************************************************)
C30_NoAcceptingLeftBehind ==
    [][\A h \in Handles :
          (loop[h].pc \in {"reject", "takekeys", "handshake", "publish"}
              /\ loop'[h].pc = "next")
          => ~ /\ loop[h].new_sock \in sockets'
               /\ cell'[loop[h].new_sock].tag = "Accepting"]_vars

(***************************************************************************)
(* C31  srt_recv keeps the mutex of the handle from its lock() to its      *)
(* return, the wait for the next unit included: while a receive of thread  *)
(* t on handle h waits or copies, t holds the mutex of h, no step changes  *)
(* the cell of h or takes h out of the registry, and no other call that    *)
(* waits for the mutex of h (send, close, set-option, get-option, ...)     *)
(* moves.  srt_accept waits with the mutex released: while an accept on h  *)
(* waits, the accepting thread does not hold the mutex of h, and a call    *)
(* that waits for it, no other thread holding it, can take its step.       *)
(***************************************************************************)
C31_ReceiveHoldsLock ==
    /\ [][\A t \in Threads :
            thr[t].pc \in {"recv_wait", "recv_copy"} =>
                /\ lock[thr[t].h] = t
                /\ cell'[thr[t].h] = cell[thr[t].h]
                /\ (thr[t].h \in sockets') <=> (thr[t].h \in sockets)
                /\ \A u \in Threads \ {t} :
                      (thr[u].pc = "lock" /\ thr[u].h = thr[t].h)
                          => thr'[u] = thr[u]]_vars
    /\ [](\A t \in Threads :
            thr[t].pc = "accept_wait" =>
                /\ lock[thr[t].h] # t
                /\ \A u \in Threads \ {t} :
                      (thr[u].pc = "lock" /\ thr[u].h = thr[t].h
                          /\ lock[thr[u].h] = "free")
                          => ENABLED ApiSteps(u))

\* a blocking receive waits on an Established handle while a close of the
\* same handle waits for the mutex
C31_Witness ==
    \E t \in Threads, u \in Threads :
        /\ thr[t].pc = "recv_wait"
        /\ thr[t].opts.rcv_syn
        /\ cell[thr[t].h].tag = "Established"
        /\ thr[u].pc = "lock"
        /\ thr[u].op = "close"
        /\ thr[u].h = thr[t].h

(***************************************************************************)
(* C32  The ApiOptions of a cell are carried unchanged across the          *)
(* transitions that keep them.  srt_listen: the Listening cell holds the   *)
(* options of the Initialized cell it replaces.  srt_connect: the value    *)
(* moved out of the cell is the cell's, and the Established or             *)
(* ConnectingNonBlocking cell written in place of the placeholder holds    *)
(* the options of the value moved out.  The connect task: the Established  *)
(* cell holds the options the ConnectingNonBlocking cell had just before.  *)
(* (Stated as claimed; the task's copy of the options breaks the last.)    *)
(***************************************************************************)
C32_ApiOptionsCarried ==
    [][\A h \in Handles :
          /\ (cell[h].tag = "Initialized" /\ cell'[h].tag = "Listening")
                => cell'[h].api = cell[h].api
          /\ (cell[h].tag = "Initialized"
                /\ cell'[h].tag = "InvalidIntermediateState"
                /\ lock'[h] \in Threads)
                => thr'[lock'[h]].sd = cell[h]
          /\ (cell[h].tag = "InvalidIntermediateState"
                /\ cell'[h].tag \in {"Established", "ConnectingNonBlocking"})
                => /\ lock[h] \in Threads
                   /\ cell'[h].api = thr[lock[h]].sd.api
          /\ (cell[h].tag = "ConnectingNonBlocking" /\ cell'[h].tag = "Established")
                => cell'[h].api = cell[h].api]_vars

(***************************************************************************)
(* C33  The stream identifier of the Initialized cell is the one connect   *)
(* hands to the handshake, and once the cell is Established get-option of  *)
(* SRTO_STREAMID yields it.  Blocking mode: the value moved out of the     *)
(* cell keeps the identifier and the Established cell reads back as it.    *)
(* Non-blocking mode: the task is given the identifier of the cell, and    *)
(* the Established cell it installs reads back as the one it was given.    *)
(* (Stated as claimed; the non-blocking arm hands over no identifier.)     *)
(***************************************************************************)
C33_StreamIdReachesHandshake ==
    [][\A h \in Handles :
          /\ (cell[h].tag = "Initialized"
                /\ cell'[h].tag = "InvalidIntermediateState"
                /\ lock'[h] \in Threads)
                => thr'[lock'[h]].sd.sid = cell[h].sid
          /\ (cell[h].tag = "InvalidIntermediateState"
                /\ cell'[h].tag = "Established")
                => /\ lock[h] \in Threads
                   /\ get_option(cell'[h], "SRTO_STREAMID")
                        = ValStr(unwrap_or_empty(thr[lock[h]].sd.sid))
          /\ (cell[h].tag = "Initialized"
                /\ task[h].pc # "running" /\ task'[h].pc = "running")
                => task'[h].streamid = cell[h].sid
          /\ (task[h].pc = "running" /\ cell'[h].tag = "Established")
                => get_option(cell'[h], "SRTO_STREAMID")
                     = ValStr(unwrap_or_empty(task[h].streamid))]_vars

(***************************************************************************)
(* C34  The variant of a cell changes only along the edges of the          *)
(* lifecycle.  The variant looked at is the one a caller can meet: the     *)
(* cell's own, or, while a call holds the mutex with the placeholder in    *)
(* the cell, the variant that call moved out.  Every step leaves it as it  *)
(* is, creates the cell (Initialized or Accepting), or follows one of the  *)
(* eight edges; no edge leaves Closed or ConnectFailed.  (Stated as        *)
(* claimed; the failure arms of srt_listen break it.)                      *)
(***************************************************************************)
C34_LifecycleEdges ==
    [][\A h \in Handles :
          LET before == IF lock[h] \in Threads
                           /\ cell[h].tag = "InvalidIntermediateState"
                        THEN thr[lock[h]].sd.tag ELSE cell[h].tag
              after == IF lock'[h] \in Threads
                          /\ cell'[h].tag = "InvalidIntermediateState"
                       THEN thr'[lock'[h]].sd.tag ELSE cell'[h].tag
          IN  \/ after = before
              \/ before = "NoCell" /\ after \in {"Initialized", "Accepting"}
              \/ <<before, after>> \in
                    {<<"Initialized", "Listening">>,
                     <<"Initialized", "Established">>,
                     <<"Initialized", "ConnectingNonBlocking">>,
                     <<"ConnectingNonBlocking", "Established">>,
                     <<"ConnectingNonBlocking", "ConnectFailed">>,
                     <<"Accepting", "Established">>,
                     <<"Established", "Closed">>,
                     <<"Listening", "Closed">>}]_vars

====
